---- MODULE Spec2Model ----
(***************************************************************************)
(* Sample distribution and real-time plotting of the TMSi SAGA Python      *)
(* interface, in ten specifications over one set of variables:             *)
(*                                                                         *)
(*   Spec        the sample data server (the broker that fans sample       *)
(*               blocks out to registered consumer queues) and the         *)
(*               consumers that own those queues;                          *)
(*   SpecWindow  the window buffer of the real-time plot: the write and    *)
(*               the frame of SamplingThread.update_samples, and the       *)
(*               time-range buttons of RealTimePlot;                       *)
(*   SpecLoop    the life of the plot's sampling thread: the polling loop  *)
(*               of update_samples with its lag mode, the device that      *)
(*               publishes, and RealTimePlot.closeEvent;                   *)
(*   SpecDrop    the same loop behind a queue small enough for the device  *)
(*               to find it full, so that blocks are dropped;              *)
(*   SpecResize  the loop while the user clicks the time-range buttons;    *)
(*   SpecLag     the loop with the window left open, under fair            *)
(*               scheduling of the threads;                                *)
(*   SpecLowRate the loop of SpecResize at sample rates whose narrowest    *)
(*               window has no white-out;                                  *)
(*   SpecChannels  the channel selection of RealTimePlot, its checkboxes   *)
(*               and the scaling of the displayed channels;                *)
(*   SpecLookup  the colours ImpedancePlot gives its indicators;           *)
(*   SpecImpedance  the polling loop of the impedance monitor's            *)
(*               SamplingThread.                                           *)
(*                                                                         *)
(* In SpecChannels, SpecLookup and SpecImpedance the variables plot,       *)
(* worker and obs hold the records of that part of the program             *)
(* (new_channel_plot, new_impedance_plot, new_impedance_worker,            *)
(* NoImpedanceObs).                                                        *)
(*                                                                         *)
(* sample_data_server.py is not among the source files; its three          *)
(* operations (registerConsumer, unregisterConsumer, putSampleData) are    *)
(* modelled from spec.md section 4.1.  The consumer side (queue            *)
(* construction, the dequeue loop, the calls into the server) is modelled  *)
(* from plotters/plotter.py and plotters/impedance_plotter.py, and the     *)
(* registry's initial value from settings.py.                              *)
(***************************************************************************)
EXTENDS Integers, Sequences, FiniteSets, TLC

(* ------------------------------ bounds --------------------------------- *)

\* Capacity of the consumer queues of the distribution model.  The plotters
\* construct their queues with 1000 slots (plotter.py:653-654,
\* impedance_plotter.py:330); the distribution model scales the capacity
\* down so that full queues are reachable.
QUEUE_SIZE == 2

\* Number of blocks the acquisition source publishes in one behaviour.
MaxPublish == 3

\* Device identifiers the source may publish under / consumers register for.
DeviceIds == {"dev1", "dev2"}

\* The consumer queues (one per SamplingThread); a queue is its own handle.
Queues == {"qA", "qB"}

(* ------------------------------ state ---------------------------------- *)

VARIABLES
    consumer_list,  \* settings._consumer_list: sequence of [id, q] entries
    queues,         \* q_sample_sets of every consumer: [maxsize, items]
    nPublished,     \* number of putSampleData calls made so far
    delivered,      \* history: per queue, the blocks its consumer dequeued
    offered,        \* history: per queue, the blocks published for its
                    \*   device while it was registered
    wasFull,        \* history: per queue, a publish found it full
    solo,           \* history: per queue, its registration and contents as
                    \*   they would be if its consumer were the only
                    \*   consumer in the system: [id, items]
    last,           \* the last operation: [op, id, q, had, err]; had says
                    \*   whether q had an entry when the call was made
    plot,           \* the RealTimePlot window (GUI thread): its state
                    \*   (open, closing, closed), the number of calls
                    \*   closeEvent has made, window_size, sample_rate and
                    \*   the time-range buttons
    worker,         \* the plot's SamplingThread: [pc, sampling, lag,
                    \*   window_size, samples_seen, sd, white_out,
                    \*   indices_ws, indices]; pc is its position in
                    \*   update_samples, sd the block in hand, white_out
                    \*   and indices the locals of these names, and
                    \*   indices_ws the window size 'indices' was built
                    \*   with (0 and <<>> while not assigned)
    window_buffer,  \* the array shared by RealTimePlot and SamplingThread:
                    \*   per channel, per ring slot, a sample or NaN
    measuring,      \* the device is measuring (start_measurement called,
                    \*   stop_measurement not yet)
    obs             \* history of the plot's worker: what it dequeued,
                    \*   wrote and emitted

brokerVars == <<consumer_list, queues, nPublished, delivered, offered,
                wasFull, solo, last>>

plotVars == <<plot, worker, window_buffer, measuring, obs>>

vars == <<consumer_list, queues, nPublished, delivered, offered, wasFull,
          solo, last, plot, worker, window_buffer, measuring, obs>>

(* --------------------- queue.Queue (standard library) ------------------ *)

\* Mutant: the queue is constructed without a capacity (maxsize 0 means
\* unbounded in queue.Queue).
SamplingThread_q_unbounded == [maxsize |-> 0, items |-> <<>>]

\* queue.Queue(_QUEUE_SIZE): an empty queue with a fixed capacity.
SamplingThread_q_sample_sets == [maxsize |-> QUEUE_SIZE, items |-> <<>>]

\* Queue.full(): 0 < maxsize <= qsize.
Queue_full(qu) == 0 < qu.maxsize /\ qu.maxsize <= Len(qu.items)

\* Queue.empty().
Queue_empty(qu) == Len(qu.items) = 0

\* The enqueue of Queue.put / put_nowait on a queue with room: append at the
\* tail.
Queue_put(qu, sd) == [qu EXCEPT !.items = Append(@, sd)]

\* Mutant: get hands out the newest item instead of the oldest.
Queue_get_newest(qu) ==
    [item |-> qu.items[Len(qu.items)],
     q    |-> [qu EXCEPT !.items = SubSeq(@, 1, Len(@) - 1)]]

\* Queue.get() on a non-empty queue: remove and return the oldest item.
Queue_get(qu) ==
    [item |-> Head(qu.items), q |-> [qu EXCEPT !.items = Tail(@)]]

(* ------------------------ sample data server --------------------------- *)

\* TRUE iff queue q has an entry in the registry.
IsRegistered(list, q) == \E i \in 1..Len(list) : list[i].q = q

\* The queues registered for device id.
Subscribers(list, id) ==
    {list[i].q : i \in {j \in 1..Len(list) : list[j].id = id}}

\* Mutant: register appends without looking for an existing entry.
registerConsumer_append(list, id, q) ==
    [list |-> Append(list, [id |-> id, q |-> q]), err |-> "none"]

\* Mutant: register looks for an existing entry under the same device only.
registerConsumer_perdevice(list, id, q) ==
    IF \E i \in 1..Len(list) : list[i] = [id |-> id, q |-> q]
    THEN [list |-> list, err |-> "none"]
    ELSE [list |-> Append(list, [id |-> id, q |-> q]), err |-> "none"]

\* register(deviceId, queue): adds the queue to the subscribers of deviceId;
\* no effect if the queue is already registered; an unknown deviceId gets its
\* entry lazily.
registerConsumer(list, id, q) ==
    IF IsRegistered(list, q)
    THEN [list |-> list, err |-> "none"]
    ELSE [list |-> Append(list, [id |-> id, q |-> q]), err |-> "none"]

\* Mutant: unregister of a queue that is not registered raises (list.remove).
unregisterConsumer_raise(list, q) ==
    IF IsRegistered(list, q)
    THEN [list |-> SelectSeq(list, LAMBDA e : e.q # q), err |-> "none"]
    ELSE [list |-> list, err |-> "ValueError"]

\* unregister(handle): removes the queue from its device's subscribers;
\* idempotent.
unregisterConsumer(list, q) ==
    [list |-> SelectSeq(list, LAMBDA e : e.q # q), err |-> "none"]

\* Mutant: a full queue makes room by discarding its oldest block.
offer_drop_oldest(qu, sd) ==
    IF Queue_full(qu)
    THEN [q |-> Queue_put([qu EXCEPT !.items = Tail(@)], sd),
          err |-> "none", blocked |-> FALSE]
    ELSE [q |-> Queue_put(qu, sd), err |-> "none", blocked |-> FALSE]

\* Mutant: Queue.put(sd) with its default block=True waits for a free slot.
offer_blocking(qu, sd) ==
    IF Queue_full(qu)
    THEN [q |-> qu, err |-> "none", blocked |-> TRUE]
    ELSE [q |-> Queue_put(qu, sd), err |-> "none", blocked |-> FALSE]

\* Mutant: Queue.put_nowait(sd) with queue.Full not caught.
offer_raise(qu, sd) ==
    IF Queue_full(qu)
    THEN [q |-> qu, err |-> "Full", blocked |-> FALSE]
    ELSE [q |-> Queue_put(qu, sd), err |-> "none", blocked |-> FALSE]

\* Delivery of one block to one subscribed queue: drop-and-log when the queue
\* is at capacity (the queue keeps what it holds, the new block is not
\* enqueued), never waiting and never raising.
offer(qu, sd) ==
    IF Queue_full(qu)
    THEN [q |-> qu, err |-> "none", blocked |-> FALSE]
    ELSE [q |-> Queue_put(qu, sd), err |-> "none", blocked |-> FALSE]

\* Mutant: the device id of an entry is not compared.
wants_any(entry, id) == TRUE

\* An entry of the registry receives the blocks of its own device only.
wants(entry, id) == entry.id = id

\* The loop of publish over the registry, entry i onwards.  A delivery that
\* raises or waits ends the loop there.
RECURSIVE deliver(_, _, _, _, _)
deliver(list, qs, id, sd, i) ==
    IF i > Len(list)
    THEN [queues |-> qs, err |-> "none", blocked |-> FALSE]
    ELSE IF wants(list[i], id)
         THEN LET r == offer(qs[list[i].q], sd)
              IN  IF r.err # "none" \/ r.blocked
                  THEN [queues |-> qs, err |-> r.err, blocked |-> r.blocked]
                  ELSE deliver(list, [qs EXCEPT ![list[i].q] = r.q],
                               id, sd, i + 1)
         ELSE deliver(list, qs, id, sd, i + 1)

\* Mutant: publishing under an id without an entry raises.
putSampleData_keyerror(list, qs, id, sd) ==
    IF Subscribers(list, id) = {}
    THEN [queues |-> qs, err |-> "KeyError", blocked |-> FALSE]
    ELSE deliver(list, qs, id, sd, 1)

\* publish(deviceId, block): the block goes to every queue currently
\* registered for deviceId; fan-out to zero subscribers is a silent no-op.
putSampleData(list, qs, id, sd) == deliver(list, qs, id, sd, 1)

(* --------------------------- sample blocks ----------------------------- *)

\* The n-th block the source publishes (blocks are told apart by their
\* publish number; the payload plays no part in the distribution).
SampleData(n) == [n |-> n]

(* ----------------------------- Init ------------------------------------ *)

NoOp == [op |-> "init", id |-> "-", q |-> "-", had |-> FALSE, err |-> "none"]

\* No plot window has been constructed: the distribution model runs the
\* server and its consumer queues without a RealTimePlot.
NoPlot == [state |-> "none", closing |-> 0, window_size |-> 0,
           sample_rate |-> 0]

NoWorker == [pc |-> "none", sampling |-> FALSE, lag |-> FALSE,
             window_size |-> 0, samples_seen |-> 0, sd |-> <<>>,
             white_out |-> 0, indices_ws |-> 0, indices |-> <<>>]

\* Nothing has been observed of the worker: taken counts the blocks it
\* dequeued, lagged the blocks it wrote in lag mode, frames the frames it
\* emitted, after_stop the blocks it dequeued after the stop request; spin
\* says that it found its queue empty and has not slept since; framed is
\* the value samples_seen had when the last frame was emitted.
NoObs == [taken |-> 0, lagged |-> 0, frames |-> 0, after_stop |-> 0,
          spin |-> FALSE, framed |-> 0]

Init ==
    /\ consumer_list = <<>>
    /\ queues = [q \in Queues |-> SamplingThread_q_sample_sets]
    /\ nPublished = 0
    /\ delivered = [q \in Queues |-> <<>>]
    /\ offered = [q \in Queues |-> <<>>]
    /\ wasFull = [q \in Queues |-> FALSE]
    /\ solo = [q \in Queues |-> [id |-> "-", items |-> <<>>]]
    /\ last = NoOp
    /\ plot = NoPlot
    /\ worker = NoWorker
    /\ window_buffer = <<>>
    /\ measuring = FALSE
    /\ obs = NoObs

(* ---------------------------- actions ---------------------------------- *)

\* A consumer registers its queue for a device (SamplingThread.__init__).
RegisterConsumer(id, q) ==
    LET r == registerConsumer(consumer_list, id, q)
    IN  /\ consumer_list' = r.list
        /\ solo' = [solo EXCEPT ![q].id = IF @ = "-" THEN id ELSE @]
        /\ last' = [op |-> "register", id |-> id, q |-> q,
                    had |-> IsRegistered(consumer_list, q), err |-> r.err]
        /\ UNCHANGED <<queues, nPublished, delivered, offered, wasFull>>
        /\ UNCHANGED plotVars

\* A consumer unregisters its queue (closeEvent).
UnregisterConsumer(q) ==
    LET r == unregisterConsumer(consumer_list, q)
    IN  /\ consumer_list' = r.list
        /\ solo' = [solo EXCEPT ![q].id = "-"]
        /\ last' = [op |-> "unregister", id |-> "-", q |-> q,
                    had |-> IsRegistered(consumer_list, q), err |-> r.err]
        /\ UNCHANGED <<queues, nPublished, delivered, offered, wasFull>>
        /\ UNCHANGED plotVars

\* The acquisition source publishes its next block under device id.  A call
\* that waits for a consumer does not complete, so it is no step.
PutSampleData(id) ==
    LET sd   == SampleData(nPublished + 1)
        r    == putSampleData(consumer_list, queues, id, sd)
        subs == Subscribers(consumer_list, id)
    IN  /\ nPublished < MaxPublish
        /\ ~r.blocked
        /\ queues' = r.queues
        /\ nPublished' = nPublished + 1
        /\ offered' = [q \in Queues |->
                         IF q \in subs THEN Append(offered[q], sd)
                                       ELSE offered[q]]
        /\ wasFull' = [q \in Queues |->
                         wasFull[q] \/ (q \in subs /\ Queue_full(queues[q]))]
        /\ solo' = [q \in Queues |->
                      IF solo[q].id = id /\ Len(solo[q].items) < QUEUE_SIZE
                      THEN [solo[q] EXCEPT !.items = Append(@, sd)]
                      ELSE solo[q]]
        /\ last' = [op |-> "publish", id |-> id, q |-> "-", had |-> FALSE,
                    err |-> r.err]
        /\ UNCHANGED <<consumer_list, delivered>>
        /\ UNCHANGED plotVars

\* The consumer that owns q finds it non-empty and takes one block
\* (SamplingThread.update_samples).
Get(q) ==
    /\ ~Queue_empty(queues[q])
    /\ LET r == Queue_get(queues[q])
       IN  /\ queues' = [queues EXCEPT ![q] = r.q]
           /\ delivered' = [delivered EXCEPT ![q] = Append(@, r.item)]
    /\ solo' = [solo EXCEPT ![q].items = IF @ = <<>> THEN @ ELSE Tail(@)]
    /\ last' = [op |-> "get", id |-> "-", q |-> q, had |-> FALSE,
                err |-> "none"]
    /\ UNCHANGED <<consumer_list, nPublished, offered, wasFull>>
    /\ UNCHANGED plotVars

Next ==
    \/ \E id \in DeviceIds, q \in Queues : RegisterConsumer(id, q)
    \/ \E q \in Queues : UnregisterConsumer(q)
    \/ \E id \in DeviceIds : PutSampleData(id)
    \/ \E q \in Queues : Get(q)

Spec == Init /\ [][Next]_vars

(* ----------------------- vocabulary of the claims ---------------------- *)

\* The blocks queue q holds, oldest first.
Items(q) == queues[q].items

\* Queue q holds as many blocks as it has slots.
AtCapacity(q) == Len(queues[q].items) >= QUEUE_SIZE

\* Queue q has an entry under device id.
RegisteredFor(q, id) ==
    \E i \in 1..Len(consumer_list) : consumer_list[i] = [id |-> id, q |-> q]

\* Queue q has an entry under some device.
HasEntry(q) == \E id \in DeviceIds : RegisteredFor(q, id)

\* The elements of a sequence.
Range(s) == {s[i] : i \in 1..Len(s)}

\* The blocks of s carry strictly increasing publish numbers.
InPublishOrder(s) == \A i, j \in 1..Len(s) : i < j => s[i].n < s[j].n

Block1 == SampleData(1)

Block2 == SampleData(2)

(* ------------------------------- C1 ------------------------------------ *)

\* C1: a publish under deviceId appends its block to every queue that is
\* registered for deviceId and not full, and leaves every other queue (one
\* registered for another device, one that is not registered, one that is
\* full) exactly as it was.
C1_PublishFansOut ==
    [][last'.op = "publish" =>
         \A q \in Queues :
            Items(q)' = IF RegisteredFor(q, last'.id) /\ ~AtCapacity(q)
                        THEN Append(Items(q), SampleData(nPublished'))
                        ELSE Items(q)]_vars

\* The scenario of C1 has run: qA and qB were registered on dev1 for the first
\* publish, qB was unregistered, and the second publish grew qA only.
C1_Witness ==
    /\ last.op = "publish"
    /\ consumer_list = <<[id |-> "dev1", q |-> "qA"]>>
    /\ Items("qA") = <<Block1, Block2>>
    /\ Items("qB") = <<Block1>>
    /\ delivered = [q \in Queues |-> <<>>]

(* ------------------------------- C2 ------------------------------------ *)

\* C2: what a consumer has dequeued, followed by what its queue still holds,
\* is in publish order without repetition and consists of blocks published
\* for its device while it was registered; if no publish ever found the queue
\* full it is exactly the sequence of those blocks.
C2_FifoPublishOrder ==
    \A q \in Queues :
        LET got == delivered[q] \o Items(q)
        IN  /\ InPublishOrder(got)
            /\ Range(got) \subseteq Range(offered[q])
            /\ ~wasFull[q] => got = offered[q]

\* A consumer has dequeued two blocks that had been queued together, with no
\* publish ever finding its queue full.
C2_Witness ==
    \E q \in Queues :
        /\ last.op = "get"
        /\ last.q = q
        /\ Len(delivered[q]) >= 2
        /\ ~wasFull[q]
        /\ delivered[q] = offered[q]

(* ------------------------------- C3 ------------------------------------ *)

\* C3: no queue ever holds more blocks than its capacity.
C3_CapacityNeverExceeded ==
    \A q \in Queues : Len(Items(q)) <= QUEUE_SIZE

\* More blocks than the capacity were published to a queue nobody drained.
C3_Witness ==
    \E q \in Queues :
        /\ Len(offered[q]) > QUEUE_SIZE
        /\ delivered[q] = <<>>
        /\ Len(Items(q)) = QUEUE_SIZE

(* ------------------------------- C4 ------------------------------------ *)

\* C4: in every reachable state, whatever the consumers have or have not
\* dequeued, a publish call under any device id returns without waiting, and
\* the source can take its next publish step.
C4_PublishNeverWaits ==
    \A id \in DeviceIds :
        /\ ~putSampleData(consumer_list, queues, id,
                          SampleData(nPublished + 1)).blocked
        /\ nPublished < MaxPublish => ENABLED PutSampleData(id)

\* A publish has completed although a queue registered for its device was
\* full and stays full.
C4_Witness ==
    \E q \in Queues :
        /\ last.op = "publish"
        /\ RegisteredFor(q, last.id)
        /\ wasFull[q]
        /\ AtCapacity(q)

(* ------------------------------- C5 ------------------------------------ *)

\* C5: a publish that finds a queue of its device at capacity leaves that
\* queue exactly as it was (oldest block included, new block not enqueued) and
\* surfaces no error.
C5_FullQueueUnchanged ==
    [][last'.op = "publish" =>
         /\ last'.err = "none"
         /\ \A q \in Queues :
               RegisteredFor(q, last'.id) /\ AtCapacity(q)
                   => queues'[q] = queues[q]]_vars

\* The last publish found a subscribed queue full: its block was offered to
\* the queue and is not in it.
C5_Witness ==
    \E q \in Queues :
        /\ last.op = "publish"
        /\ RegisteredFor(q, last.id)
        /\ AtCapacity(q)
        /\ offered[q] # <<>>
        /\ offered[q][Len(offered[q])].n = nPublished
        /\ \A i \in 1..Len(Items(q)) : Items(q)[i].n < nPublished

(* ------------------------------- C6 ------------------------------------ *)

\* C6: every queue is registered and filled exactly as it would be if its
\* consumer were alone in the system, so what a consumer receives does not
\* depend on how fast any other consumer drains or whether it drops blocks.
C6_ConsumersIndependent ==
    \A q \in Queues :
        /\ Items(q) = solo[q].items
        /\ \A id \in DeviceIds : RegisteredFor(q, id) <=> solo[q].id = id

\* Two consumers of one device: one has dropped a block, the other has
\* received and dequeued every block.
C6_Witness ==
    \E q, r \in Queues :
        /\ q # r
        /\ \E id \in DeviceIds : RegisteredFor(q, id) /\ RegisteredFor(r, id)
        /\ wasFull[q]
        /\ Len(offered[q]) > Len(delivered[q]) + Len(Items(q))
        /\ ~wasFull[r]
        /\ Len(delivered[r]) = MaxPublish

(* ------------------------------- C7 ------------------------------------ *)

\* C7: in every reachable state and for every handle, unregistering twice
\* gives the registry that unregistering once gives, neither call raises, and
\* an unregister step never touches a queue.
C7_UnregisterIdempotent ==
    /\ [](\A q \in Queues :
            LET once  == unregisterConsumer(consumer_list, q)
                twice == unregisterConsumer(once.list, q)
            IN  /\ twice.list = once.list
                /\ once.err = "none"
                /\ twice.err = "none")
    /\ [][last'.op = "unregister" =>
            /\ queues' = queues
            /\ last'.err = "none"
            /\ \A i \in 1..Len(consumer_list') :
                   consumer_list'[i].q # last'.q
            /\ ~HasEntry(last'.q) => consumer_list' = consumer_list]_vars

\* Unregister was called for a queue that had been registered, had received a
\* block, and no longer had an entry when the call was made.
C7_Witness ==
    /\ last.op = "unregister"
    /\ ~last.had
    /\ offered[last.q] # <<>>
    /\ consumer_list # <<>>

(* ------------------------------- C8 ------------------------------------ *)

\* C8: registering a queue that already has an entry changes neither the
\* registry nor any queue; no queue ever receives a block twice; and after an
\* unregister the queue has no entry left.
C8_RegisterTwiceNoEffect ==
    /\ [](/\ \A q \in Queues :
               \A i, j \in 1..Len(delivered[q] \o Items(q)) :
                   i # j => (delivered[q] \o Items(q))[i]
                              # (delivered[q] \o Items(q))[j]
          /\ last.op = "unregister" => ~HasEntry(last.q))
    /\ [][last'.op = "register" /\ HasEntry(last'.q) =>
            /\ consumer_list' = consumer_list
            /\ queues' = queues
            /\ last'.err = "none"]_vars

\* Register was called for a queue that had its entry under the same device
\* and had already received a block through it.
C8_Witness ==
    /\ last.op = "register"
    /\ last.had
    /\ RegisteredFor(last.q, last.id)
    /\ Items(last.q) # <<>>

(* ------------------------------- C9 ------------------------------------ *)

C10_OneDevicePerQueue ==
    /\ [](\A q \in Queues :
            Cardinality({i \in 1..Len(consumer_list) :
                            consumer_list[i].q = q}) <= 1)
    /\ [][consumer_list' # consumer_list
            => last'.op \in {"register", "unregister"}]_vars

\* Register was called under one device for a queue that has its entry under
\* the other device.
C10_Witness ==
    /\ last.op = "register"
    /\ last.had
    /\ ~RegisteredFor(last.q, last.id)
    /\ HasEntry(last.q)

(***************************************************************************)
(* The real-time plot (plotters/plotter.py): the window buffer that        *)
(* SamplingThread.update_samples fills and renders, the time-range buttons *)
(* of RealTimePlot, and the life of the sampling thread.                   *)
(***************************************************************************)

(* ------------------------- bounds of the plot -------------------------- *)

\* Rate the plot is decimated to.  The code divides the sample rate by 500
\* (plotter.py:102); the model scales that rate, and the sample rates with
\* it, so that the ring of ten seconds of samples stays small.
PLOT_RATE == 13

\* Seconds of samples written to the window buffer in one behaviour.
MaxSeconds == 21

(* ------------------------ constants of the plot ------------------------ *)

\* self.window_size = 5: seconds shown when the plot opens.
WINDOW_SIZE == 5

\* self._buffer_size = 10: seconds the window buffer holds.
BUFFER_SIZE == 10

\* np.nan, the value of a ring slot that holds no sample.
NaN == -1

\* Channels of the device (rows of the window buffer, entries of a sample
\* set).
Channels == {0, 1}

num_channels == Cardinality(Channels)

\* Sample rates the device may be configured with: twice the plot rate
\* (downsampling factor 2, as 1000 Hz has in the code) and the rate just
\* below it (downsampling factor 1).  Both are high enough for the
\* white-out region to be at least one sample wide at every window size.
SampleRates == {2 * PLOT_RATE - 1, 2 * PLOT_RATE}

(* --------------------- the window buffer (numpy) ----------------------- *)

\* int(self.sample_rate / 500)
downsampling_factor(sr) == sr \div PLOT_RATE

\* Columns of window_buffer: int(np.ceil(sample_rate * _buffer_size)); also
\* the modulus of plot_indices and scroll_idx.
ring_size(sr) == sr * BUFFER_SIZE

\* Mutant: the buffer starts as zeros.
new_window_buffer_zeros(sr) ==
    [c \in Channels |-> [s \in 0..(ring_size(sr) - 1) |-> 0]]

\* np.ones((active_channels, columns)) * np.nan
new_window_buffer(sr) ==
    [c \in Channels |-> [s \in 0..(ring_size(sr) - 1) |-> NaN]]

\* The block of m sample sets that starts with the first-th sample set of
\* the stream.  sd.samples is flat, one sample set after the other; the
\* entry of channel c in the sample set with stream index k has the value
\* k * num_channels + c, so that a value names its place in the stream.
SampleBlock(first, m) ==
    [num_sample_sets |-> m,
     num_samples_per_sample_set |-> num_channels,
     samples |-> [j \in 0..(m * num_channels - 1) |->
                     first * num_channels + j]]

\* The stream index of the sample set a stored value came from.
LogicalIndex(v) == v \div num_channels

\* Mutant: the reshape in row-major order (order='C'): element [c, i] is
\* the flat entry c * columns + i.
reshape_row_major(sd) ==
    [c \in 0..(sd.num_samples_per_sample_set - 1) |->
        [i \in 0..(sd.num_sample_sets - 1) |->
            sd.samples[c * sd.num_sample_sets + i]]]

\* np.reshape(sd.samples, (num_samples_per_sample_set, num_sample_sets),
\* order='F'): element [c, i] is the flat entry c + i * rows.
reshape(sd) ==
    [c \in 0..(sd.num_samples_per_sample_set - 1) |->
        [i \in 0..(sd.num_sample_sets - 1) |->
            sd.samples[c + i * sd.num_samples_per_sample_set]]]

\* int(np.floor(window_size * sample_rate * 0.04)); for the integer sample
\* rates of the model the floating-point product floors to the same value
\* as the integer quotient.
white_out(ws, sr) == (ws * sr * 4) \div 100

\* (samples_seen + np.arange(n + white_out)) % (sample_rate * _buffer_size)
plot_indices(seen, n, wo, sr) ==
    [k \in 0..(n + wo - 1) |-> (seen + k) % ring_size(sr)]

\* Number of entries of a[:-w] for an array of len entries and w >= 0
\* (a[:-0] is a[:0], the empty array).
head_len(len, w) == IF w = 0 THEN 0 ELSE IF w >= len THEN 0 ELSE len - w

\* Mutant: the slice a[-w:] is empty, so no white-out is written.
tail_from_end(len, w) == len

\* First position of a[-w:] for an array of len entries and w >= 0
\* (a[-0:] is a[0:], the whole array).
tail_from(len, w) == IF w = 0 THEN 0 ELSE IF w >= len THEN 0 ELSE len - w

\* The largest position k in lo..hi of plot_indices that names ring slot s,
\* or -1 when none does: when an indexed assignment names a slot more than
\* once, the last value assigned stays.  plot_indices[k] is
\* (seen + k) % ring.
last_position(seen, ring, lo, hi, s) ==
    LET k0 == lo + ((s - seen - lo) % ring)     \* first k >= lo naming s
    IN  IF k0 > hi THEN -1 ELSE k0 + ring * ((hi - k0) \div ring)

\* The write of update_samples (plotter.py:690-699):
\*     window_buffer[:, plot_indices[:-white_out]] = samples
\*     window_buffer[:, plot_indices[-white_out:]] = np.nan
\* The first assignment raises ValueError when the samples cannot be
\* broadcast to the selected columns; the second is then not reached.
write(buf, seen, sd, ws, sr) ==
    LET samples == reshape(sd)
        n       == sd.num_sample_sets
        wo      == white_out(ws, sr)
        ring    == ring_size(sr)
        len     == n + wo
        nhead   == head_len(len, wo)
        tfrom   == tail_from(len, wo)
        fits    == nhead = n \/ n = 1
    IN  IF ~fits
        THEN [buf |-> buf, err |-> "ValueError"]
        ELSE [buf |-> [c \in Channels |-> [s \in 0..(ring - 1) |->
                IF last_position(seen, ring, tfrom, len - 1, s) >= 0
                THEN NaN
                ELSE LET k == last_position(seen, ring, 0, nhead - 1, s)
                     IN  IF k < 0 THEN buf[c][s]
                         ELSE samples[c][IF n = 1 THEN 0 ELSE k]]],
              err |-> "none"]

\* np.size of a one-dimensional array (arrays are functions on 0..len-1).
size(a) == Cardinality(DOMAIN a)

\* Mutant: the counter is advanced by np.size(samples), the number of all
\* entries of the block.
samples_seen_after_all(seen, samples) ==
    seen + size(samples) * size(samples[0])

\* self.samples_seen += np.size(samples, 1): the counter after a block has
\* been written, advanced by the number of its columns.
samples_seen_after(seen, samples) == seen + size(samples[0])

\* Mutant: the window ends with the newest sample, not with the white-out.
window_indices_to_newest(seen, wo, ws, sr) ==
    [p \in 0..(ws * sr - 1) |-> seen - ws * sr + p]

\* np.arange(samples_seen + white_out - window_size * sample_rate,
\*           samples_seen + white_out)
window_indices(seen, wo, ws, sr) ==
    [p \in 0..(ws * sr - 1) |-> seen + wo - ws * sr + p]

\* Mutant: the window is split at its first position, whatever it holds.
split_idx_first(indices, ws, sr) == 0

\* np.where(indices % (sample_rate * window_size) == 1)[0][0]: the first
\* position whose index is 1 modulo the window length, or -1 when there is
\* none (the subscript [0] then raises IndexError).
split_idx(indices, ws, sr) ==
    LET hits == {p \in DOMAIN indices : indices[p] % (sr * ws) = 1}
    IN  IF hits = {} THEN -1
        ELSE CHOOSE p \in hits : \A r \in hits : p <= r

\* Mutant: the ring slots are computed modulo the initial window length
\* instead of the ring length.
scroll_idx_window(indices, sr) ==
    [p \in DOMAIN indices |-> indices[p] % (sr * WINDOW_SIZE)]

\* scroll_idx = indices % (sample_rate * _buffer_size): the ring slot of
\* every index of the window.
scroll_idx(indices, sr) ==
    [p \in DOMAIN indices |-> indices[p] % ring_size(sr)]

\* Mutant: the window is read in index order, without the rotation at the
\* split point.
rotation_none(len, split) == [j \in 0..(len - 1) |-> j]

\* The order in which np.hstack((a[split:], a[0:split])) takes the len
\* entries of a: entry j of the result is entry rotation[j] of a.
rotation(len, split) ==
    [j \in 0..(len - 1) |->
        IF j < len - split THEN split + j ELSE j - (len - split)]

\* np.hstack((window_buffer[:, scroll_idx[split_idx:]],
\*            window_buffer[:, scroll_idx[0:split_idx]]))
hstack(buf, scroll, split) ==
    LET order == rotation(size(scroll), split)
    IN  [c \in Channels |->
            [j \in DOMAIN scroll |-> buf[c][scroll[order[j]]]]]

\* Mutant: the frame is not decimated.
decimate_none(data, d) == data

\* plot_data[:, ::d]: every d-th column, starting with the first.
decimate(data, d) ==
    [c \in Channels |->
        LET len == size(data[c])
        IN  [k \in 0..(((len + d - 1) \div d) - 1) |-> data[c][k * d]]]

\* The window as update_samples reads it before decimation
\* (plotter.py:709-725).  wo is the white-out width of the write that went
\* before; ws_range and ws_split are the window sizes read for the index
\* range and for the split point.
window_data(buf, seen, wo, ws_range, ws_split, sr) ==
    LET indices == window_indices(seen, wo, ws_range, sr)
        split   == split_idx(indices, ws_split, sr)
    IN  IF split < 0
        THEN [data |-> <<>>, err |-> "IndexError"]
        ELSE [data |-> hstack(buf, scroll_idx(indices, sr), split),
              err |-> "none"]

\* The frame update_samples emits (plotter.py:709-730).
plot_data(buf, seen, wo, ws_range, ws_split, sr) ==
    LET w == window_data(buf, seen, wo, ws_range, ws_split, sr)
        d == downsampling_factor(sr)
    IN  IF w.err # "none" THEN w
        ELSE IF d = 0 THEN [data |-> <<>>, err |-> "ValueError"]
        ELSE [data |-> decimate(w.data, d), err |-> "none"]

\* What the statements after the assignment of the local 'indices' raise
\* (plotter.py:716-730): the err field of plot_data.
frame_error(indices, ws_split, sr) ==
    IF split_idx(indices, ws_split, sr) < 0 THEN "IndexError"
    ELSE IF downsampling_factor(sr) = 0 THEN "ValueError"
    ELSE "none"

(* ------------------- RealTimePlot and its worker ----------------------- *)

\* RealTimePlot after initUI (plotter.py:99-175) for a device configured
\* with sample rate sr.  A button text is modelled by the number of seconds
\* it shows.
new_plot(sr) ==
    [state |-> "open", closing |-> 0,
     window_size |-> WINDOW_SIZE, sample_rate |-> sr,
     x_range |-> WINDOW_SIZE,
     increase_enabled |-> TRUE, increase_text |-> WINDOW_SIZE + 1,
     decrease_enabled |-> TRUE, decrease_text |-> WINDOW_SIZE - 1]

\* SamplingThread.__init__ (plotter.py:630-663): the worker copies the
\* plot's settings and starts with sampling set.
new_worker(p) ==
    [pc |-> "idle", sampling |-> TRUE, lag |-> FALSE,
     window_size |-> p.window_size, samples_seen |-> 0, sd |-> <<>>,
     white_out |-> 0, indices_ws |-> 0, indices |-> <<>>]

\* Mutant: the handler changes the plot's window_size only.
decrease_time_range_plot_only(p, w) ==
    IF p.window_size > 1
    THEN LET ws == p.window_size - 1
         IN  [plot |-> [p EXCEPT
                  !.window_size = ws, !.x_range = ws,
                  !.increase_enabled = TRUE, !.increase_text = ws + 1,
                  !.decrease_enabled = (ws # 1),
                  !.decrease_text = IF ws = 1 THEN @ ELSE ws - 1],
              worker |-> w]
    ELSE [plot |-> p, worker |-> w]

\* RealTimePlot._decrease_time_range (plotter.py:188-205).
decrease_time_range(p, w) ==
    IF p.window_size > 1
    THEN LET ws == p.window_size - 1
         IN  [plot |-> [p EXCEPT
                  !.window_size = ws, !.x_range = ws,
                  !.increase_enabled = TRUE, !.increase_text = ws + 1,
                  !.decrease_enabled = (ws # 1),
                  !.decrease_text = IF ws = 1 THEN @ ELSE ws - 1],
              worker |-> [w EXCEPT !.window_size = @ - 1]]
    ELSE [plot |-> p, worker |-> w]

\* Mutant: the increase handler has no upper limit.
increase_time_range_unguarded(p, w) ==
    [plot |-> [p EXCEPT !.window_size = @ + 1, !.x_range = p.window_size + 1,
                        !.decrease_enabled = TRUE,
                        !.decrease_text = p.window_size,
                        !.increase_enabled = TRUE,
                        !.increase_text = p.window_size + 2],
     worker |-> [w EXCEPT !.window_size = @ + 1]]

\* RealTimePlot._increase_time_range (plotter.py:207-224).
increase_time_range(p, w) ==
    IF p.window_size < BUFFER_SIZE
    THEN LET ws == p.window_size + 1
         IN  [plot |-> [p EXCEPT
                  !.window_size = ws, !.x_range = ws,
                  !.decrease_enabled = TRUE, !.decrease_text = ws - 1,
                  !.increase_enabled = (ws # BUFFER_SIZE),
                  !.increase_text = IF ws = BUFFER_SIZE THEN @ ELSE ws + 1],
              worker |-> [w EXCEPT !.window_size = @ + 1]]
    ELSE [plot |-> p, worker |-> w]

(* ------------- specification of the window buffer ---------------------- *)

\* Number of sample sets in the blocks the worker is handed: a second of
\* samples at the higher rate, a fifth of a second (less than the wider
\* white-out regions) at the lower rate.
BlockLen(sr) == IF sr = 2 * PLOT_RATE THEN sr ELSE sr \div 5

\* A plot has been opened on a device with one of the sample rates; its
\* worker runs and nothing has arrived.  The server plays no part here.
InitWindow ==
    /\ consumer_list = <<>>
    /\ queues = [q \in Queues |-> SamplingThread_q_sample_sets]
    /\ nPublished = 0
    /\ delivered = [q \in Queues |-> <<>>]
    /\ offered = [q \in Queues |-> <<>>]
    /\ wasFull = [q \in Queues |-> FALSE]
    /\ solo = [q \in Queues |-> [id |-> "-", items |-> <<>>]]
    /\ last = NoOp
    /\ \E sr \in SampleRates :
          /\ plot = new_plot(sr)
          /\ worker = [new_worker(new_plot(sr)) EXCEPT !.pc = "inner"]
          /\ window_buffer = new_window_buffer(sr)
    /\ measuring = TRUE
    /\ obs = NoObs

\* One iteration of update_samples outside lag mode, for a block of m
\* sample sets that continues the stream: the block is dequeued and
\* written, the counter advanced and the frame computed and emitted
\* (plotter.py:686-730).
WriteAndRender(m) ==
    LET sr == plot.sample_rate
        sd == SampleBlock(worker.samples_seen, m)
        r  == write(window_buffer, worker.samples_seen, sd,
                    worker.window_size, sr)
    IN  /\ worker.samples_seen + m <= MaxSeconds * sr
        /\ r.err = "none"
        /\ window_buffer' = r.buf
        /\ worker' = [worker EXCEPT
                        !.samples_seen = samples_seen_after(@, reshape(sd))]
        /\ obs' = [obs EXCEPT !.taken = @ + 1, !.frames = @ + 1,
                              !.framed = worker'.samples_seen]
        /\ last' = [NoOp EXCEPT !.op = "update_samples"]
        /\ UNCHANGED <<plot, measuring>>
        /\ UNCHANGED <<consumer_list, queues, nPublished, delivered,
                       offered, wasFull, solo>>

\* The user clicks 'Decrease time range'.
DecreaseTimeRange ==
    LET r == decrease_time_range(plot, worker)
    IN  /\ plot' = r.plot
        /\ worker' = r.worker
        /\ last' = [NoOp EXCEPT !.op = "time_range"]
        /\ UNCHANGED <<window_buffer, measuring, obs>>
        /\ UNCHANGED <<consumer_list, queues, nPublished, delivered,
                       offered, wasFull, solo>>

\* The user clicks 'Increase time range'.
IncreaseTimeRange ==
    LET r == increase_time_range(plot, worker)
    IN  /\ plot' = r.plot
        /\ worker' = r.worker
        /\ last' = [NoOp EXCEPT !.op = "time_range"]
        /\ UNCHANGED <<window_buffer, measuring, obs>>
        /\ UNCHANGED <<consumer_list, queues, nPublished, delivered,
                       offered, wasFull, solo>>

NextWindow ==
    \/ WriteAndRender(BlockLen(plot.sample_rate))
    \/ DecreaseTimeRange
    \/ IncreaseTimeRange

SpecWindow == InitWindow /\ [][NextWindow]_vars

(* ---------------- vocabulary of the window-buffer claims --------------- *)

\* The last step was an iteration of update_samples, so the frame it
\* emitted is the one computed from the present state.
JustRendered == last.op = "update_samples"

\* Samples in the shown window: window_size * sample_rate.
WindowLen == worker.window_size * plot.sample_rate

\* White-out width of the present window size.
WhiteOut == white_out(worker.window_size, plot.sample_rate)

\* First logical index of the window update_samples reads.
WindowStart == worker.samples_seen + WhiteOut - WindowLen

\* The frame the iteration emitted.
Frame ==
    plot_data(window_buffer, worker.samples_seen, WhiteOut,
              worker.window_size, worker.window_size, plot.sample_rate)

\* The same window before decimation.
FullWindow ==
    window_data(window_buffer, worker.samples_seen, WhiteOut,
                worker.window_size, worker.window_size, plot.sample_rate)

\* The ring has been filled more than once / more than twice.
Wrapped == worker.samples_seen > ring_size(plot.sample_rate)

WrappedTwice == worker.samples_seen > 2 * ring_size(plot.sample_rate)

(* ------------------------------- C11 ----------------------------------- *)

IndexAt(p) ==
    WindowStart + ((p + 1 - WindowStart) % WindowLen)

\* What the ring holds for logical index k of channel c after all samples
\* up to samples_seen have been written without loss: the sample itself,
\* or NaN for an index not yet written.
Expected(c, k) ==
    IF 0 <= k /\ k < worker.samples_seen THEN k * num_channels + c ELSE NaN

ReadIndices ==
    LET indices == window_indices(worker.samples_seen, WhiteOut,
                                  worker.window_size, plot.sample_rate)
        order   == rotation(WindowLen,
                            split_idx(indices, worker.window_size,
                                      plot.sample_rate))
    IN  [j \in 0..(WindowLen - 1) |-> indices[order[j]]]

ReadSlots == scroll_idx(ReadIndices, plot.sample_rate)

\* Positions j at which the index read next is not the successor of the
\* index read at j.
Breaks(read) ==
    {j \in 0..(WindowLen - 2) : read[j + 1] # read[j] + 1}

\* The window holds the ring's wrap point: it reads the last ring slot and
\* then slot 0.
StraddlesWrap(slots) ==
    \E j \in 0..(WindowLen - 2) :
        slots[j] = ring_size(plot.sample_rate) - 1 /\ slots[j + 1] = 0

Rejected(r) == r = [plot |-> plot, worker |-> worker]

\* C14: the window size of the plot and of its worker is always within
\* 1..BUFFER_SIZE; a decrease at 1 and an increase at BUFFER_SIZE change
\* nothing, every other request moves both window sizes by exactly one
\* second; and a time-range step changes nothing but the plot and the
\* worker's window size.
C14_WindowSizeWithinLimits ==
    /\ [](plot.state = "open" =>
            /\ plot.window_size \in 1..BUFFER_SIZE
            /\ worker.window_size \in 1..BUFFER_SIZE
            /\ LET dec == decrease_time_range(plot, worker)
                   inc == increase_time_range(plot, worker)
               IN  /\ plot.window_size = 1 => Rejected(dec)
                   /\ plot.window_size = BUFFER_SIZE => Rejected(inc)
                   /\ plot.window_size > 1 =>
                         /\ dec.plot.window_size = plot.window_size - 1
                         /\ dec.worker.window_size = worker.window_size - 1
                   /\ plot.window_size < BUFFER_SIZE =>
                         /\ inc.plot.window_size = plot.window_size + 1
                         /\ inc.worker.window_size = worker.window_size + 1)
    /\ [][last'.op = "time_range" =>
            /\ plot'.window_size - plot.window_size \in {-1, 0, 1}
            /\ plot'.window_size = plot.window_size => plot' = plot
            /\ worker' = [worker EXCEPT
                            !.window_size = @ + plot'.window_size
                                              - plot.window_size]
            /\ UNCHANGED <<window_buffer, measuring, obs, queues,
                           consumer_list>>]_vars

\* The window has been widened to the whole buffer, where the increase
\* handler changes nothing any more.
C14_Witness ==
    /\ last.op = "time_range"
    /\ plot.window_size = BUFFER_SIZE
    /\ worker.window_size = BUFFER_SIZE
    /\ Rejected(increase_time_range(plot, worker))

(***************************************************************************)
(* The life of the sampling thread: RealTimePlot.setupThread starts it,    *)
(* SamplingThread.update_samples polls the queue, RealTimePlot.closeEvent  *)
(* stops it.  The device publishes through the sample data server while it *)
(* measures.                                                               *)
(***************************************************************************)

(* ------------------------------ bounds --------------------------------- *)

\* Number of blocks the device publishes while the plot is open.
MaxBlocks == 12

(* ----------------------------- constants ------------------------------- *)

\* _QUEUE_SIZE = 1000: capacity of the plot's queue.
PLOT_QUEUE_SIZE == 1000

\* if self.q_sample_sets.qsize() > 10: lag = True
LAG_HIGH == 10

\* elif self.q_sample_sets.qsize() < 6: lag = False
LAG_LOW == 6

\* The plot's queue and the device it plots.
PlotQueue == "qA"

PlotDevice == "dev1"

(* --------------------------- the loop's tests -------------------------- *)

\* Mutant: lag mode is entered at every depth.
exceeds_high_always(depth) == TRUE

\* if self.q_sample_sets.qsize() > 10 (plotter.py:677)
exceeds_high(depth) == depth > LAG_HIGH

\* Mutant: lag mode is left as soon as the depth is not above the high
\* mark (no hysteresis).
below_low_no_hysteresis(depth) == depth <= LAG_HIGH

\* elif self.q_sample_sets.qsize() < 6 (plotter.py:681)
below_low(depth) == depth < LAG_LOW

\* Mutant: the loop goes on to dequeue without looking at the queue.
has_block_unchecked(qu) == TRUE

\* while not self.q_sample_sets.empty() (plotter.py:674): the condition
\* under which the loop goes on to dequeue.
has_block(qu) == ~Queue_empty(qu)

\* Mutant: the measurement is started before the queue is registered.
SamplingThread_init_start_first == <<"start_measurement", "register">>

\* The calls of SamplingThread.__init__ that reach outside the worker, in
\* order (plotter.py:657-660, impedance_plotter.py:333-336):
\* sample_data_server.registerConsumer, device.start_measurement.
SamplingThread_init_calls == <<"register", "start_measurement">>

\* Mutant: the queue is unregistered before the thread is ended.
closeEvent_unregister_first == <<"stop", "unregister", "terminate">>

\* The calls of RealTimePlot.closeEvent, in order (plotter.py:614-621):
\* worker.stop(), thread.terminate() with thread.wait(), unregisterConsumer.
closeEvent_calls == <<"stop", "terminate", "unregister">>

\* Mutant: stop() leaves the sampling flag set.
stop_without_flag(w) == w

\* SamplingThread.stop (plotter.py:798-806), the worker's part: the flag
\* the loop polls is cleared.
stop(w) == [w EXCEPT !.sampling = FALSE]

(* --------------------- specification of the loop ----------------------- *)

\* The plot's queue: queue.Queue(_QUEUE_SIZE).
plot_q_sample_sets == [maxsize |-> PLOT_QUEUE_SIZE, items |-> <<>>]

\* The state in which RealTimePlot.setupThread constructs the worker:
\* initUI is done, SamplingThread.__init__ has copied the plot's settings
\* and created its queue, and has not yet called the server or the device.
InitLoop ==
    /\ \E sr \in SampleRates :
          /\ plot = new_plot(sr)
          /\ worker = [new_worker(new_plot(sr)) EXCEPT
                         !.pc = "init", !.sampling = FALSE]
          /\ window_buffer = new_window_buffer(sr)
    /\ consumer_list = <<>>
    /\ queues = [q \in Queues |->
                   IF q = PlotQueue THEN plot_q_sample_sets
                                    ELSE SamplingThread_q_sample_sets]
    /\ measuring = FALSE
    /\ nPublished = 0
    /\ delivered = [q \in Queues |-> <<>>]
    /\ offered = [q \in Queues |-> <<>>]
    /\ wasFull = [q \in Queues |-> FALSE]
    /\ solo = [q \in Queues |-> [id |-> "-", items |-> <<>>]]
    /\ last = NoOp
    /\ obs = NoObs

\* What a step of the worker leaves alone.
WorkerFrame ==
    UNCHANGED <<consumer_list, nPublished, delivered, offered, wasFull,
                solo, last, plot, measuring>>

\* The worker is inside update_samples.
InLoop ==
    worker.pc \in {"outer", "inner", "high", "low", "get", "write",
                   "indices", "emit", "sleep"}

\* The device's sampling thread publishes its next block.
Publish ==
    LET m  == BlockLen(plot.sample_rate)
        sd == SampleBlock(nPublished * m, m)
        r  == putSampleData(consumer_list, queues, PlotDevice, sd)
    IN  /\ measuring
        /\ nPublished < MaxBlocks
        /\ ~r.blocked
        /\ queues' = r.queues
        /\ nPublished' = nPublished + 1
        /\ UNCHANGED <<consumer_list, delivered, offered, wasFull, solo,
                       last>>
        /\ UNCHANGED plotVars

\* SamplingThread.__init__ makes its next call: registerConsumer for the
\* device's id, or device.start_measurement(), after which the device
\* publishes.  After the last call the flag is set (plotter.py:663) and
\* setupThread starts the thread (plotter.py:596-607).
ThreadInit ==
    /\ worker.pc = "init"
    /\ LET made == (IF IsRegistered(consumer_list, PlotQueue) THEN 1 ELSE 0)
                      + (IF measuring THEN 1 ELSE 0)
           call == SamplingThread_init_calls[made + 1]
       IN  /\ consumer_list' =
                 IF call = "register"
                 THEN registerConsumer(consumer_list, PlotDevice,
                                       PlotQueue).list
                 ELSE consumer_list
           /\ measuring' = (measuring \/ call = "start_measurement")
           /\ worker' =
                 IF made + 1 = Len(SamplingThread_init_calls)
                 THEN [worker EXCEPT !.pc = "idle", !.sampling = TRUE]
                 ELSE worker
    /\ UNCHANGED <<queues, nPublished, delivered, offered, wasFull, solo,
                   last, plot, window_buffer, obs>>

\* The thread's started signal runs update_samples: lag = False.
LoopStart ==
    /\ worker.pc = "idle"
    /\ worker' = [worker EXCEPT !.pc = "outer", !.lag = FALSE]
    /\ UNCHANGED <<queues, window_buffer, obs>>
    /\ WorkerFrame

\* while self.sampling:
LoopTestSampling ==
    /\ worker.pc = "outer"
    /\ worker' = [worker EXCEPT
                    !.pc = IF worker.sampling THEN "inner" ELSE "done"]
    /\ UNCHANGED <<queues, window_buffer, obs>>
    /\ WorkerFrame

\* while not self.q_sample_sets.empty():
LoopTestEmpty ==
    /\ worker.pc = "inner"
    /\ IF ~has_block(queues[PlotQueue])
       THEN /\ worker' = [worker EXCEPT !.pc = "outer"]
            /\ obs' = [obs EXCEPT !.spin = TRUE]
       ELSE /\ worker' = [worker EXCEPT !.pc = "high"]
            /\ obs' = obs
    /\ UNCHANGED <<queues, window_buffer>>
    /\ WorkerFrame

\* if self.q_sample_sets.qsize() > 10: lag = True
LoopTestHigh ==
    /\ worker.pc = "high"
    /\ IF exceeds_high(Len(queues[PlotQueue].items))
       THEN worker' = [worker EXCEPT !.pc = "get", !.lag = TRUE]
       ELSE worker' = [worker EXCEPT !.pc = "low"]
    /\ UNCHANGED <<queues, window_buffer, obs>>
    /\ WorkerFrame

\* elif self.q_sample_sets.qsize() < 6: lag = False
LoopTestLow ==
    /\ worker.pc = "low"
    /\ IF below_low(Len(queues[PlotQueue].items))
       THEN worker' = [worker EXCEPT !.pc = "get", !.lag = FALSE]
       ELSE worker' = [worker EXCEPT !.pc = "get"]
    /\ UNCHANGED <<queues, window_buffer, obs>>
    /\ WorkerFrame

\* sd = self.q_sample_sets.get(); a get on an empty queue waits.
LoopGet ==
    /\ worker.pc = "get"
    /\ ~Queue_empty(queues[PlotQueue])
    /\ LET r == Queue_get(queues[PlotQueue])
       IN  /\ queues' = [queues EXCEPT ![PlotQueue] = r.q]
           /\ worker' = [worker EXCEPT !.pc = "write", !.sd = r.item]
    /\ obs' = [obs EXCEPT
                 !.taken = @ + 1,
                 !.after_stop = IF worker.sampling THEN @ ELSE @ + 1]
    /\ UNCHANGED window_buffer
    /\ WorkerFrame

\* The block is written and counted (plotter.py:690-702); 'if lag' then
\* chooses between the short sleep and the frame.  window_size is read
\* once, for the local white_out.  An exception of the write ends
\* update_samples.
LoopWrite ==
    /\ worker.pc = "write"
    /\ LET r == write(window_buffer, worker.samples_seen, worker.sd,
                      worker.window_size, plot.sample_rate)
       IN  IF r.err # "none"
           THEN /\ worker' = [worker EXCEPT !.pc = "crashed"]
                /\ UNCHANGED <<window_buffer, obs>>
           ELSE /\ window_buffer' = r.buf
                /\ worker' = [worker EXCEPT
                     !.samples_seen =
                         samples_seen_after(@, reshape(worker.sd)),
                     !.sd = <<>>,
                     !.white_out = white_out(worker.window_size,
                                             plot.sample_rate),
                     !.pc = IF worker.lag THEN "sleep" ELSE "indices"]
                /\ obs' = [obs EXCEPT
                     !.lagged = IF worker.lag THEN @ + 1 ELSE @]
    /\ UNCHANGED queues
    /\ WorkerFrame

\* indices = np.arange(...) and scroll_idx (plotter.py:711-716):
\* window_size is read again, for the index range of the window.
LoopIndices ==
    /\ worker.pc = "indices"
    /\ worker' = [worker EXCEPT
                      !.pc = "emit",
                      !.indices_ws = worker.window_size,
                      !.indices = window_indices(worker.samples_seen,
                                      worker.white_out, worker.window_size,
                                      plot.sample_rate)]
    /\ UNCHANGED <<queues, window_buffer, obs>>
    /\ WorkerFrame

\* The split point is looked up, with window_size read a third time, and
\* the frame is joined, decimated and emitted (plotter.py:721-730).  An
\* exception of the computation ends update_samples.
LoopEmit ==
    /\ worker.pc = "emit"
    /\ LET err == frame_error(worker.indices, worker.window_size,
                              plot.sample_rate)
       IN  IF err # "none"
           THEN /\ worker' = [worker EXCEPT !.pc = "crashed"]
                /\ obs' = obs
           ELSE /\ worker' = [worker EXCEPT !.pc = "sleep"]
                /\ obs' = [obs EXCEPT !.frames = @ + 1,
                                      !.framed = worker.samples_seen]
    /\ UNCHANGED <<queues, window_buffer>>
    /\ WorkerFrame

\* time.sleep(0.001) in lag mode, time.sleep(0.01) after a frame.
LoopSleep ==
    /\ worker.pc = "sleep"
    /\ worker' = [worker EXCEPT !.pc = "inner", !.white_out = 0,
                                !.indices_ws = 0, !.indices = <<>>]
    /\ obs' = [obs EXCEPT !.spin = FALSE]
    /\ UNCHANGED <<queues, window_buffer>>
    /\ WorkerFrame

\* The user closes the window, which is shown once RealTimePlot has been
\* constructed: closeEvent makes its next call.
\* worker.stop() stops the measurement and clears the flag;
\* thread.terminate() ends the thread wherever it is, unless
\* update_samples has returned, and thread.wait() returns;
\* unregisterConsumer takes the queue out of the server's list, and
\* QApplication.quit() follows.
CloseEvent ==
    /\ worker.pc # "init"
    /\ plot.closing < Len(closeEvent_calls)
    /\ LET call == closeEvent_calls[plot.closing + 1]
       IN  /\ plot' = [plot EXCEPT
                 !.closing = @ + 1,
                 !.state = IF plot.closing + 1 = Len(closeEvent_calls)
                           THEN "closed" ELSE "closing"]
           /\ worker' =
                 IF call = "stop" THEN stop(worker)
                 ELSE IF call = "terminate"
                           /\ worker.pc \notin {"done", "crashed"}
                      THEN [worker EXCEPT !.pc = "killed"]
                      ELSE worker
           /\ measuring' = IF call = "stop" THEN FALSE ELSE measuring
           /\ consumer_list' =
                 IF call = "unregister"
                 THEN unregisterConsumer(consumer_list, PlotQueue).list
                 ELSE consumer_list
    /\ UNCHANGED <<queues, nPublished, delivered, offered, wasFull, solo,
                   last, window_buffer, obs>>

NextLoop ==
    \/ ThreadInit
    \/ Publish
    \/ LoopStart
    \/ LoopTestSampling
    \/ LoopTestEmpty
    \/ LoopTestHigh
    \/ LoopTestLow
    \/ LoopGet
    \/ LoopWrite
    \/ LoopIndices
    \/ LoopEmit
    \/ LoopSleep
    \/ CloseEvent

SpecLoop == InitLoop /\ [][NextLoop]_vars

(* -------------------- vocabulary of the loop claims -------------------- *)

\* The phase of the renderer loop: Idle until update_samples begins,
\* Streaming while it runs with the flag set, Draining while it runs with
\* the flag cleared, Stopped when it has returned or its thread has been
\* ended.
Phase ==
    IF worker.pc \in {"init", "idle"} THEN "Idle"
    ELSE IF ~InLoop THEN "Stopped"
    ELSE IF worker.sampling THEN "Streaming"
    ELSE "Draining"

\* closeEvent has called worker.stop().
StopRequested == plot.closing >= 1

\* Blocks waiting in the plot's queue.
Depth == Len(queues[PlotQueue].items)

\* Blocks written to the window buffer so far.
Written == worker.samples_seen \div BlockLen(plot.sample_rate)

(* ------------------------------- C15 ----------------------------------- *)

\* C15: the loop's phase only moves along Idle, Streaming, Draining,
\* Stopped: Streaming is entered only from Idle, left only for Draining;
\* Draining is left only for Stopped; Stopped is never left; a loop that is
\* stopped before it began goes from Idle to Draining or Stopped without
\* ever Streaming.  A block is dequeued or a frame emitted only by a step
\* of a loop that is Streaming or Draining before and after the step, and
\* once the stop has been requested the loop is never Streaming.
C15_Lifecycle ==
    /\ [](StopRequested => Phase # "Streaming")
    /\ [][/\ Phase = "Idle" =>
                \/ Phase' \in {"Idle", "Streaming"}
                \/ StopRequested /\ Phase' \in {"Draining", "Stopped"}
          /\ Phase = "Streaming" => Phase' \in {"Streaming", "Draining"}
          /\ Phase = "Draining" => Phase' \in {"Draining", "Stopped"}
          /\ Phase = "Stopped" => Phase' = "Stopped"
          /\ (\/ obs'.taken # obs.taken
              \/ obs'.frames # obs.frames
              \/ Depth' < Depth) =>
                /\ Phase \in {"Streaming", "Draining"}
                /\ Phase' \in {"Streaming", "Draining"}]_vars

\* A loop that streamed, dequeued blocks, emitted frames, was asked to
\* stop and returned from update_samples.
C15_Witness ==
    /\ worker.pc = "done"
    /\ StopRequested
    /\ obs.taken > 1
    /\ obs.frames > 1

(* ------------------------------- C16 ----------------------------------- *)

\* C16: after the stop request the loop dequeues at most one more block,
\* the one of the iteration that was in progress when the request came,
\* and starts on no further queued block.
C16_StopsAfterCurrentIteration == obs.after_stop <= 1

(* ------------------------------- C17 ----------------------------------- *)

\* C17: a plot that has been closed has no entry for its queue in the
\* server's list; the entry is removed only when the loop has stopped
\* dequeuing (update_samples has returned or its thread has been ended);
\* and while the queue has no entry nothing is put into it (nor taken from
\* it).
C17_UnregisteredAfterStop ==
    /\ [](plot.state = "closed" => ~HasEntry(PlotQueue))
    /\ [][(HasEntry(PlotQueue) /\ consumer_list' # consumer_list) =>
            ~InLoop /\ worker.pc # "idle"]_vars
    /\ [][~HasEntry(PlotQueue) =>
            queues'[PlotQueue] = queues[PlotQueue]]_vars

\* The plot registered its queue, streamed, and was closed while blocks
\* were still queued: the thread was ended, the entry removed, the blocks
\* stay where they are.
C17_Witness ==
    /\ plot.state = "closed"
    /\ ~HasEntry(PlotQueue)
    /\ worker.pc = "killed"
    /\ obs.taken > 0
    /\ Depth > 0

(* ------------------------------- C18 ----------------------------------- *)

\* C18: while Streaming the loop never checks its queue again after
\* finding it empty without having slept in between; and a loop that finds
\* its queue non-empty goes on to dequeue one block and to write it.
C18_SleepsWhenEmpty ==
    /\ []((Phase = "Streaming" /\ worker.pc = "inner") => ~obs.spin)
    /\ [][(worker.pc = "inner" /\ worker'.pc = "high") => Depth > 0]_vars
    /\ [][(worker.pc = "get" /\ worker'.pc = "write") =>
             /\ Depth' = Depth - 1
             /\ worker'.sd = Head(queues[PlotQueue].items)]_vars

(* ------------------------------- C19 ----------------------------------- *)

\* C19: lag mode changes only at the two depth tests that precede a
\* dequeue.  The first test sets it when the depth it reads exceeds
\* LAG_HIGH; otherwise the second test clears it when the depth it reads is
\* below LAG_LOW; in every other case (a depth from LAG_LOW to LAG_HIGH) it
\* keeps its value.  So it is entered only at a depth above LAG_HIGH and
\* left only at a depth below LAG_LOW.
C19_LagHysteresis ==
    /\ [][(worker.pc = "high" /\ worker'.pc \in {"low", "get"}) =>
             /\ worker'.pc = "get" <=> Depth > LAG_HIGH
             /\ worker'.lag = (worker.lag \/ Depth > LAG_HIGH)]_vars
    /\ [][(worker.pc = "low" /\ worker'.pc = "get") =>
             worker'.lag = (worker.lag /\ ~(Depth < LAG_LOW))]_vars
    /\ [][(InLoop /\ worker'.lag # worker.lag) =>
             \/ worker'.lag /\ worker.pc = "high" /\ Depth > LAG_HIGH
             \/ ~worker'.lag /\ worker.pc = "low" /\ Depth < LAG_LOW]_vars

\* The loop entered lag mode, dequeued, and came through both tests at a
\* depth between the marks with lag mode kept.
C19_Witness ==
    /\ worker.pc = "get"
    /\ worker.lag
    /\ obs.lagged > 0
    /\ Depth >= LAG_LOW
    /\ Depth <= LAG_HIGH

(* ------------------------------- C20 ----------------------------------- *)

\* C20: no frame is emitted in lag mode; every block the loop has dequeued
\* has been written to the window buffer and counted in samples_seen, or
\* is the block the running loop is about to write; and every block written
\* outside lag mode has had its one frame emitted, or is the block whose
\* frame the running loop is about to emit.
C20_EveryBlockWrittenAndFramed ==
    /\ [](Written = obs.taken - (IF worker.pc = "write" THEN 1 ELSE 0))
    /\ [](obs.frames = Written - obs.lagged
                         - (IF worker.pc \in {"indices", "emit"}
                            THEN 1 ELSE 0))
    /\ [][obs'.frames # obs.frames =>
             ~worker.lag /\ obs'.frames = obs.frames + 1]_vars

(***************************************************************************)
(* Ownership of the window state, the end of the loop, dropped blocks and  *)
(* the layout of a block.                                                  *)
(***************************************************************************)

(* ------------------------------- C21 ----------------------------------- *)

\* C21 as stated: while update_samples runs, a step of another thread than
\* the worker's (here the GUI thread's time-range handlers) leaves the
\* window buffer, samples_seen and the worker's window_size as they are.
C21_OnlyTheLoopTouchesTheWindow ==
    [][(InLoop /\ last'.op = "time_range") =>
          /\ window_buffer' = window_buffer
          /\ worker'.samples_seen = worker.samples_seen
          /\ worker'.window_size = worker.window_size]_vars

(* ------------------------------- C22 ----------------------------------- *)

\* C22 as stated: update_samples ends only by its own test of the flag (the
\* outer 'while self.sampling' finds it cleared and the method returns);
\* no step of another thread ends it, least of all while it holds a block
\* it has dequeued and not yet written, or a frame it has not yet emitted.
C22_CooperativeStop ==
    [][(InLoop /\ ~InLoop') =>
          /\ worker.pc = "outer"
          /\ ~worker.sampling
          /\ worker'.pc = "done"]_vars

(* ------------- specification of the plot behind a full queue ----------- *)

\* Number of blocks the device publishes to the plot whose queue can fill.
MaxDropBlocks == 5

\* As InitLoop, but the plot's queue has the scaled capacity of the
\* distribution model, so that the device can find it full.
InitDrop ==
    /\ \E sr \in SampleRates :
          /\ plot = new_plot(sr)
          /\ worker = new_worker(new_plot(sr))
          /\ window_buffer = new_window_buffer(sr)
    /\ consumer_list = registerConsumer(<<>>, PlotDevice, PlotQueue).list
    /\ queues = [q \in Queues |-> SamplingThread_q_sample_sets]
    /\ measuring = TRUE
    /\ nPublished = 0
    /\ delivered = [q \in Queues |-> <<>>]
    /\ offered = [q \in Queues |-> <<>>]
    /\ wasFull = [q \in Queues |-> FALSE]
    /\ solo = [q \in Queues |-> [id |-> "-", items |-> <<>>]]
    /\ last = NoOp
    /\ obs = NoObs

\* The device publishes and the worker polls; the window stays open.
NextDrop ==
    \/ nPublished < MaxDropBlocks /\ Publish
    \/ LoopStart
    \/ LoopTestSampling
    \/ LoopTestEmpty
    \/ LoopTestHigh
    \/ LoopTestLow
    \/ LoopGet
    \/ LoopWrite
    \/ LoopIndices
    \/ LoopEmit
    \/ LoopSleep

SpecDrop == InitDrop /\ [][NextDrop]_vars

(* ------------------------------- C23 ----------------------------------- *)

\* Blocks the server did not put into the plot's queue because it was
\* full: published, neither dequeued nor waiting.
Dropped == nPublished - obs.taken - Depth

\* The worker has emitted a frame and sleeps: the frame is the one computed
\* from the present state.
FrameEmitted == worker.pc = "sleep" /\ ~worker.lag

\* C23 as stated: two neighbouring elements of a frame that are both
\* samples (no NaN between them) are neighbours in the stream the device
\* published (downsampling_factor sample sets apart); where a block was
\* dropped, the samples before and after it are not shown side by side.
C23_DropShowsAsGap ==
    FrameEmitted =>
        LET f == Frame
            d == downsampling_factor(plot.sample_rate)
        IN  \A c \in Channels : \A q \in 0..(size(f.data[c]) - 2) :
                (f.data[c][q] # NaN /\ f.data[c][q + 1] # NaN) =>
                    LogicalIndex(f.data[c][q + 1])
                        = LogicalIndex(f.data[c][q]) + d

(* ------------------------------- C24 ----------------------------------- *)

\* C24: from the test that found the queue non-empty up to the dequeue the
\* queue holds at least one block, whatever the device publishes in
\* between, so q_sample_sets.get() never waits; and the queue gets shorter
\* only by the worker's own dequeue, one block at a time.
C24_DequeueFindsBlock ==
    /\ [](worker.pc \in {"high", "low", "get"} => Depth > 0)
    /\ [][Depth' < Depth =>
            /\ worker.pc = "get"
            /\ worker'.pc = "write"
            /\ Depth' = Depth - 1]_vars

\* The worker has dequeued before, has found its queue non-empty again and
\* is about to dequeue the only block in it.
C24_Witness ==
    /\ worker.pc = "get"
    /\ Depth = 1
    /\ obs.taken > 0
    /\ nPublished = obs.taken + 1

(* ------------------------------- C25 ----------------------------------- *)

\* C25: until the ring has been filled once, every slot from samples_seen
\* onwards (never written, or whited out) holds NaN; a frame shows at every
\* position the value of the ring slot of that position's logical index,
\* NaN where the slot holds NaN; and every frame position whose logical
\* index is negative shows NaN.
C25_UnwrittenIsNaN ==
    [](LET sr   == plot.sample_rate
           ring == ring_size(sr)
           d    == downsampling_factor(sr)
       IN  /\ \A c \in Channels : \A s \in 0..(ring - 1) :
                 s >= worker.samples_seen => window_buffer[c][s] = NaN
           /\ JustRendered =>
                 LET f == Frame
                 IN  \A c \in Channels : \A q \in DOMAIN f.data[c] :
                        LET k == IndexAt(q * d)
                        IN  /\ f.data[c][q] = window_buffer[c][k % ring]
                            /\ k < 0 => f.data[c][q] = NaN)

\* The first frame of a plot widened to the whole buffer: one block has
\* been written, and all of the frame before it and behind it is NaN.
C25_Witness ==
    /\ JustRendered
    /\ worker.window_size = BUFFER_SIZE
    /\ worker.samples_seen = BlockLen(plot.sample_rate)
    /\ WindowStart < 0
    /\ \E q \in DOMAIN Frame.data[0] : Frame.data[0][q] # NaN
    /\ \E q \in DOMAIN Frame.data[0] :
          /\ IndexAt(q * downsampling_factor(plot.sample_rate)) < 0
          /\ Frame.data[0][q] = NaN

(* ------------------------------- C26 ----------------------------------- *)

WrittenBlock ==
    SampleBlock(worker.samples_seen - BlockLen(plot.sample_rate),
                BlockLen(plot.sample_rate))

SlotOf(i) ==
    (worker.samples_seen - BlockLen(plot.sample_rate) + i)
        % ring_size(plot.sample_rate)

\* C29 as stated: sd.samples has num_channels * num_sample_sets entries and
\* is channel-major: the entry of channel c, sample set i is entry
\* c * num_sample_sets + i, and the write puts it in row c at the slot of
\* sample set i.
C29_ChannelMajor ==
    JustRendered =>
        LET sd == WrittenBlock
            n  == sd.num_sample_sets
        IN  /\ size(sd.samples) = num_channels * n
            /\ \A c \in Channels : \A i \in 0..(n - 1) :
                  window_buffer[c][SlotOf(i)] = sd.samples[c * n + i]

\* C29 as amended: sd.samples has num_channels * num_sample_sets entries
\* and is sample-set-major (interleaved): the entry of channel c, sample
\* set i is entry i * num_channels + c, and the write puts it in row c at
\* the slot of sample set i.
C29_SampleSetMajor ==
    [](JustRendered =>
          LET sd == WrittenBlock
              n  == sd.num_sample_sets
          IN  /\ size(sd.samples) = num_channels * n
              /\ \A c \in Channels : \A i \in 0..(n - 1) :
                    window_buffer[c][SlotOf(i)]
                        = sd.samples[i * num_channels + c])

\* The first block has been written: its second entry is in the row of
\* channel 1 at the first slot, its third entry in the row of channel 0 at
\* the second slot.
C29_Witness ==
    /\ JustRendered
    /\ worker.samples_seen = BlockLen(plot.sample_rate)
    /\ WrittenBlock.num_sample_sets > 1
    /\ window_buffer[1][0] = WrittenBlock.samples[1]
    /\ window_buffer[0][1] = WrittenBlock.samples[2]
    /\ WrittenBlock.samples[1] # WrittenBlock.samples[2]

(* ------------------------------- C30 ----------------------------------- *)

\* C30: whenever the device measures for the plot, the plot's queue has
\* its entry in the server's list (the entry is made before the
\* measurement starts and removed after it has stopped); every block the
\* device publishes is appended to the plot's queue; and no published block
\* is missing: each is waiting in the queue or has been dequeued.
C30_RegisteredBeforeStart ==
    /\ [](measuring => RegisteredFor(PlotQueue, PlotDevice))
    /\ [][nPublished' = nPublished + 1 =>
            /\ measuring
            /\ queues'[PlotQueue].items =
                  Append(queues[PlotQueue].items,
                         SampleBlock(nPublished * BlockLen(plot.sample_rate),
                                     BlockLen(plot.sample_rate)))]_vars
    /\ [](nPublished = obs.taken + Depth)

\* The device has published right after the start of the measurement,
\* before update_samples began: the blocks wait in the plot's queue.
C30_Witness ==
    /\ worker.pc = "idle"
    /\ measuring
    /\ RegisteredFor(PlotQueue, PlotDevice)
    /\ nPublished > 1
    /\ Depth = nPublished

(***************************************************************************)
(* The time-range buttons while the loop runs, the end of lag mode, the    *)
(* rotation of the window and the narrowest white-out.                     *)
(***************************************************************************)

(* ------- specification of the loop with the time-range buttons --------- *)

\* Number of blocks the device publishes while the user changes the time
\* range.
MaxResizeBlocks == 2

\* The plot has been constructed: the queue is registered, the device
\* measures, the thread is started and update_samples has not begun.
InitResize ==
    /\ \E sr \in SampleRates :
          /\ plot = new_plot(sr)
          /\ worker = new_worker(new_plot(sr))
          /\ window_buffer = new_window_buffer(sr)
    /\ consumer_list = registerConsumer(<<>>, PlotDevice, PlotQueue).list
    /\ queues = [q \in Queues |->
                   IF q = PlotQueue THEN plot_q_sample_sets
                                    ELSE SamplingThread_q_sample_sets]
    /\ measuring = TRUE
    /\ nPublished = 0
    /\ delivered = [q \in Queues |-> <<>>]
    /\ offered = [q \in Queues |-> <<>>]
    /\ wasFull = [q \in Queues |-> FALSE]
    /\ solo = [q \in Queues |-> [id |-> "-", items |-> <<>>]]
    /\ last = NoOp
    /\ obs = NoObs

\* The device publishes, the worker polls, and the user clicks the
\* time-range buttons at any moment: the handlers run on the GUI thread,
\* between any two steps of the worker.
NextResize ==
    \/ nPublished < MaxResizeBlocks /\ Publish
    \/ LoopStart
    \/ LoopTestSampling
    \/ LoopTestEmpty
    \/ LoopTestHigh
    \/ LoopTestLow
    \/ LoopGet
    \/ LoopWrite
    \/ LoopIndices
    \/ LoopEmit
    \/ LoopSleep
    \/ DecreaseTimeRange
    \/ IncreaseTimeRange

SpecResize == InitResize /\ [][NextResize]_vars

(* ------------------------------- C31 ----------------------------------- *)

\* C31 as stated: update_samples never ends with an exception, and every
\* frame is computed from one window size: when the split point is looked
\* up, the local white_out, the index range and the split point all belong
\* to the window size the worker has at that moment, and the split point is
\* found.
C31_ResizeCannotBreakIteration ==
    /\ [](worker.pc # "crashed")
    /\ [][(worker.pc = "emit" /\ worker'.pc # "emit") =>
            /\ worker.indices_ws = worker.window_size
            /\ worker.white_out = white_out(worker.window_size,
                                            plot.sample_rate)
            /\ worker'.pc = "sleep"]_vars

(* ----------- specification of the loop under fair scheduling ----------- *)

\* The plot is constructed, the device publishes its blocks and stops, the
\* worker polls; the window stays open.
NextLag ==
    \/ ThreadInit
    \/ Publish
    \/ LoopStart
    \/ LoopTestSampling
    \/ LoopTestEmpty
    \/ LoopTestHigh
    \/ LoopTestLow
    \/ LoopGet
    \/ LoopWrite
    \/ LoopIndices
    \/ LoopEmit
    \/ LoopSleep

\* A step of the GUI thread's constructor or of the worker thread.  Both
\* threads are scheduled by the operating system: a thread that can take a
\* step is not passed over for ever.  Nothing obliges the device to
\* publish.
ThreadStep ==
    \/ ThreadInit
    \/ LoopStart
    \/ LoopTestSampling
    \/ LoopTestEmpty
    \/ LoopTestHigh
    \/ LoopTestLow
    \/ LoopGet
    \/ LoopWrite
    \/ LoopIndices
    \/ LoopEmit
    \/ LoopSleep

SpecLag == InitLoop /\ [][NextLag]_vars /\ WF_vars(ThreadStep)

(* ------------------------------- C32 ----------------------------------- *)

\* C32: lag mode is always left again; the block whose dequeue empties the
\* queue is never written in lag mode; and once the device has stopped
\* publishing, the loop comes to rest with the queue empty, lag mode off,
\* every published block written, and the last frame emitted after the
\* last write.
C32_LagModeIsLeft ==
    /\ worker.lag ~> ~worker.lag
    /\ []((worker.pc = "write" /\ Depth = 0) => ~worker.lag)
    /\ <>[](/\ Depth = 0
            /\ ~worker.lag
            /\ worker.samples_seen
                  = nPublished * BlockLen(plot.sample_rate)
            /\ obs.framed = worker.samples_seen)

\* The loop has been in lag mode, has left it with the device silent, has
\* drained its queue and has emitted the frame of the last block.
C32_Witness ==
    /\ nPublished = MaxBlocks
    /\ obs.lagged > 0
    /\ ~worker.lag
    /\ Depth = 0
    /\ obs.taken = nPublished
    /\ obs.framed = nPublished * BlockLen(plot.sample_rate)
    /\ worker.pc = "inner"

(* ------------------------------- C33 ----------------------------------- *)

\* The logical indices of the shown window that have been written.
ShownIndices ==
    {k \in WindowStart..(worker.samples_seen - 1) : k >= 0}

\* C33: in every frame, before decimation, each written sample of the
\* window is at position (k - 1) % WindowLen, k its logical index, and the
\* window holds as many samples as it has written indices, so each sample
\* is there exactly once; and from one frame to the next of the same
\* window size, the newest sample of the first frame and the oldest
\* sample of the second, when both frames contain them, have not moved.
C33_SamplesKeepTheirPosition ==
    /\ [](JustRendered =>
            LET w == FullWindow
            IN  /\ w.err = "none"
                /\ \A c \in Channels :
                      /\ \A k \in ShownIndices :
                            w.data[c][(k - 1) % WindowLen]
                                = k * num_channels + c
                      /\ Cardinality({p \in 0..(WindowLen - 1) :
                                          w.data[c][p] # NaN})
                            = Cardinality(ShownIndices))
    /\ [][(/\ JustRendered
           /\ JustRendered'
           /\ worker'.window_size = worker.window_size) =>
            \A k \in {worker.samples_seen - 1, WindowStart'} :
                (/\ k \in ShownIndices
                 /\ k >= WindowStart') =>
                    \A p \in {(k - 1) % WindowLen} :
                        /\ FullWindow.data[0][p] = k * num_channels
                        /\ FullWindow'.data[0][p] = k * num_channels]_vars

\* A second frame of the initial window after the ring has wrapped: the
\* last sample of the frame before is where it was, one position before
\* the first sample of the new block.
C33_Witness ==
    /\ JustRendered
    /\ Wrapped
    /\ obs.frames >= 2
    /\ worker.window_size = WINDOW_SIZE
    /\ LET w == FullWindow
           k == worker.samples_seen - plot.sample_rate - 1
       IN  /\ w.data[0][(k - 1) % WindowLen] = k * num_channels
           /\ w.data[0][k % WindowLen] = (k + 1) * num_channels

(* ----------- specification of the loop at low sample rates ------------- *)

\* Sample rates at which the narrowest window has a white-out of width 0:
\* white_out(1, sr) = int(sr * 0.04) = 0 below 25 Hz.
LowSampleRates == {PLOT_RATE, PLOT_RATE + 1}

\* The plot of InitResize on a device with a low sample rate.
InitLowRate ==
    /\ \E sr \in LowSampleRates :
          /\ plot = new_plot(sr)
          /\ worker = new_worker(new_plot(sr))
          /\ window_buffer = new_window_buffer(sr)
    /\ consumer_list = registerConsumer(<<>>, PlotDevice, PlotQueue).list
    /\ queues = [q \in Queues |->
                   IF q = PlotQueue THEN plot_q_sample_sets
                                    ELSE SamplingThread_q_sample_sets]
    /\ measuring = TRUE
    /\ nPublished = 0
    /\ delivered = [q \in Queues |-> <<>>]
    /\ offered = [q \in Queues |-> <<>>]
    /\ wasFull = [q \in Queues |-> FALSE]
    /\ solo = [q \in Queues |-> [id |-> "-", items |-> <<>>]]
    /\ last = NoOp
    /\ obs = NoObs

SpecLowRate == InitLowRate /\ [][NextResize]_vars

(* ------------------------------- C34 ----------------------------------- *)

\* C34 as stated: a write whose white-out width is 0 stores every sample
\* of the block in its ring slot and sets no slot to NaN that was not NaN
\* before.
C34_WriteWithoutWhiteOut ==
    [][(/\ worker.pc = "write"
        /\ worker'.pc # "write"
        /\ white_out(worker.window_size, plot.sample_rate) = 0) =>
          LET samples == reshape(worker.sd)
              ring    == ring_size(plot.sample_rate)
          IN  /\ worker'.pc # "crashed"
              /\ \A c \in Channels :
                    /\ \A i \in DOMAIN samples[c] :
                          window_buffer'[c][(worker.samples_seen + i) % ring]
                              = samples[c][i]
                    /\ \A s \in 0..(ring - 1) :
                          window_buffer'[c][s] = NaN
                              => window_buffer[c][s] = NaN]_vars

(* ------------------------------- C38 ----------------------------------- *)

\* C38: whatever time-range buttons have been clicked, the plot and its
\* worker have the same window_size, the x axis spans it, the decrease
\* button is enabled exactly above 1 s and the increase button exactly
\* below the buffer duration, and an enabled button's text shows the
\* window size its click leads to.
C38_ButtonsFollowWindowSize ==
    [](/\ plot.window_size = worker.window_size
       /\ plot.x_range = plot.window_size
       /\ plot.decrease_enabled <=> plot.window_size > 1
       /\ plot.increase_enabled <=> plot.window_size < BUFFER_SIZE
       /\ plot.decrease_enabled
             => plot.decrease_text = plot.window_size - 1
       /\ plot.increase_enabled
             => plot.increase_text = plot.window_size + 1)

\* The time range has been increased to the buffer duration: the increase
\* button is disabled and the decrease button offers one second less.
C38_Witness ==
    /\ last.op = "time_range"
    /\ plot.window_size = BUFFER_SIZE
    /\ worker.window_size = BUFFER_SIZE
    /\ ~plot.increase_enabled
    /\ plot.decrease_enabled
    /\ plot.decrease_text = BUFFER_SIZE - 1

(***************************************************************************)
(* The channels RealTimePlot displays: the selection made at construction, *)
(* the checkboxes, the show-all and hide-all buttons and the scaling of    *)
(* the displayed channels.                                                 *)
(***************************************************************************)

(* ----------------------- the device's channels ------------------------- *)

\* Channels of the device, numbered from 0; the last two are the STATUS
\* and the COUNTER channel (np.size(self.device.channels, 0) - 2 and - 1).
NumDeviceChannels == 5

STATUS == NumDeviceChannels - 2

COUNTER == NumDeviceChannels - 1

\* The type of every channel that has a checkbox.
ChannelTypeOf == [i \in 0..(NumDeviceChannels - 3) |->
                     IF i < 2 THEN "UNI" ELSE "BIP"]

\* Longest channel_selection list handed to the constructor.
MaxSelection == 2

\* The lists handed to the constructor: None or [] (both <<>> here) or a
\* list of channel indices of the device.
Selections ==
    UNION {[1..n -> 0..(NumDeviceChannels - 1)] : n \in 0..MaxSelection}

\* The scaling range of a channel that has not been scaled: 2**31 in the
\* code, written here as the largest integer TLC has, one less; no signal
\* of the model has a range near it and nothing is computed from it.
DEFAULT_DIFF == 2147483647

\* Mean and range of the STATUS curve at construction.
STATUS_MEAN == 1024

STATUS_DIFF == 1

(* --------------------------- list helpers ------------------------------ *)

\* x in a (Python list or numpy array, here a sequence).
In(x, a) == \E k \in DOMAIN a : a[k] = x

\* a.index(x) and np.where(a == x)[0][0], counted from 0: the first
\* position of x.
first_index(a, x) ==
    (CHOOSE k \in DOMAIN a : a[k] = x /\ \A j \in 1..(k - 1) : a[j] # x) - 1

\* np.delete(a, a == x): a without the entries equal to x (the boolean
\* array is a mask since numpy 1.19).
delete(a, x) == SelectSeq(a, LAMBDA y : y # x)

\* a.sort(): ascending.
sort(a) == SortSeq(a, LAMBDA x, y : x < y)

(* ---------------------- RealTimePlot.__init__ -------------------------- *)

\* The loop of plotter.py:74-79 from entry k of the list it iterates over:
\* at an entry equal to the STATUS index, the list that will be used is
\* cut before the first STATUS index it holds; list.index raises
\* ValueError when it holds none any more.
RECURSIVE cut_at_status(_, _, _)
cut_at_status(given, k, selection) ==
    IF k > Len(given) THEN [selection |-> selection, err |-> "none"]
    ELSE IF given[k] # STATUS
    THEN cut_at_status(given, k + 1, selection)
    ELSE IF ~In(STATUS, selection)
    THEN [selection |-> selection, err |-> "ValueError"]
    ELSE cut_at_status(given, k + 1,
             SubSeq(selection, 1, first_index(selection, STATUS)))

\* self._channel_selection as __init__ leaves it (plotter.py:69-80).
init_channel_selection(given) ==
    IF given = <<>>
    THEN [selection |-> [k \in 1..(NumDeviceChannels - 1) |-> k - 1],
          err |-> "none"]
    ELSE LET r == cut_at_status(given, 1, given)
         IN  [selection |-> r.selection \o <<STATUS>>, err |-> r.err]

\* The scaling of a channel that has not been scaled.
default_plot_diff == [mean |-> 0, diff |-> DEFAULT_DIFF]

\* The channel part of RealTimePlot after initUI (plotter.py:108-126): a
\* checkbox for every channel but the last two, checked when the channel
\* is selected, and a scaling per displayed curve, the last curve's set to
\* that of the STATUS channel.
new_channel_plot(selection) ==
    [state |-> "open",
     channel_selection |-> selection,
     num_channels |-> Len(selection),
     checkboxes |-> [i \in 0..(NumDeviceChannels - 3) |-> In(i, selection)],
     plot_diff |-> [k \in 1..Len(selection) |->
                      IF k = Len(selection)
                      THEN [mean |-> STATUS_MEAN, diff |-> STATUS_DIFF]
                      ELSE default_plot_diff]]

(* ------------------ RealTimePlot._update_channel_display --------------- *)

\* The loop over the checkboxes (plotter.py:284-297) from checkbox i on:
\* a checked channel that is not displayed is appended, an unchecked one
\* that is displayed is deleted; increase is the local _increase, "unset"
\* while no checkbox has assigned it.
RECURSIVE apply_checkboxes(_, _, _, _)
apply_checkboxes(checkboxes, i, selection, increase) ==
    IF i > NumDeviceChannels - 3
    THEN [selection |-> selection, increase |-> increase]
    ELSE IF checkboxes[i] /\ ~In(i, selection)
    THEN apply_checkboxes(checkboxes, i + 1, selection \o <<i>>, "true")
    ELSE IF ~checkboxes[i] /\ In(i, selection)
    THEN apply_checkboxes(checkboxes, i + 1, delete(selection, i), "false")
    ELSE apply_checkboxes(checkboxes, i + 1, selection, increase)

\* The scalings after an increase (plotter.py:314-321): _idx_overlap holds
\* the new positions of the channels displayed before; going through the
\* new positions, each one found in _idx_overlap takes the next old
\* scaling.
plot_diff_increase(old_selection, selection, copy_plot_diff) ==
    LET idx_overlap ==
            {first_index(selection, old_selection[k]) :
                k \in {j \in DOMAIN old_selection :
                          In(old_selection[j], selection)}}
        count(i) == Cardinality({j \in idx_overlap : j < i})
    IN  [k \in 1..Len(selection) |->
            IF (k - 1) \in idx_overlap
            THEN copy_plot_diff[count(k - 1) + 1]
            ELSE default_plot_diff]

\* The old positions of the channels that stay displayed, in the old
\* order (plotter.py:323).
RECURSIVE idx_overlap_decrease(_, _, _)
idx_overlap_decrease(old_selection, selection, k) ==
    IF k > Len(old_selection) THEN <<>>
    ELSE (IF In(old_selection[k], selection)
          THEN <<first_index(old_selection, old_selection[k])>>
          ELSE <<>>)
         \o idx_overlap_decrease(old_selection, selection, k + 1)

\* The scalings after a decrease (plotter.py:322-328): new position i
\* takes the old scaling at _idx_overlap[i].
plot_diff_decrease(old_selection, selection, copy_plot_diff) ==
    LET idx_overlap == idx_overlap_decrease(old_selection, selection, 1)
    IN  [k \in 1..Len(selection) |-> copy_plot_diff[idx_overlap[k] + 1]]

\* RealTimePlot._update_channel_display (plotter.py:276-330) for the
\* checkbox states of p.
update_channel_display(p) ==
    LET r == apply_checkboxes(p.checkboxes, 0, p.channel_selection, "unset")
        selection == sort(r.selection)
    IN  IF r.increase = "unset"
        THEN [plot |-> p, err |-> "UnboundLocalError"]
        ELSE [plot |-> [p EXCEPT
                  !.channel_selection = selection,
                  !.num_channels = Len(selection),
                  !.plot_diff =
                      IF r.increase = "true"
                      THEN plot_diff_increase(p.channel_selection,
                                              selection, p.plot_diff)
                      ELSE plot_diff_decrease(p.channel_selection,
                                              selection, p.plot_diff)],
              err |-> "none"]

\* The checkboxes of type t.
OfType(t) == {i \in DOMAIN ChannelTypeOf : ChannelTypeOf[i] = t}

\* _show_all_UNI, _show_all_BIP, ... (plotter.py:360-379 and the like):
\* nothing when every checkbox of the type is checked already.
show_all(p, t) ==
    IF \A i \in OfType(t) : p.checkboxes[i]
    THEN [plot |-> p, err |-> "none"]
    ELSE update_channel_display(
             [p EXCEPT !.checkboxes =
                 [i \in DOMAIN p.checkboxes |->
                     IF i \in OfType(t) THEN TRUE ELSE p.checkboxes[i]]])

\* _hide_all_UNI, _hide_all_BIP, ... (plotter.py:382-401 and the like).
hide_all(p, t) ==
    IF \A i \in OfType(t) : ~p.checkboxes[i]
    THEN [plot |-> p, err |-> "none"]
    ELSE update_channel_display(
             [p EXCEPT !.checkboxes =
                 [i \in DOMAIN p.checkboxes |->
                     IF i \in OfType(t) THEN FALSE ELSE p.checkboxes[i]]])

(* ----------------------- RealTimePlot._update_scale -------------------- *)

\* Largest and smallest value of the signal of channel c outside the
\* white-out: every channel has its own; channel 0 is flat.
SignalMax(c) == 100 * (c + 1) + c

SignalMin(c) == 100 * (c + 1) - c

\* RealTimePlot._update_scale (plotter.py:243-258): the scaling of every
\* displayed curve becomes the middle and the range of its channel's
\* signal; a range of 0 is replaced by 2**31, and by 1 for the last curve.
update_scale(p) ==
    [p EXCEPT !.plot_diff =
        [k \in 1..p.num_channels |->
            LET c    == p.channel_selection[k]
                diff == SignalMax(c) - SignalMin(c)
            IN  [mean |-> (SignalMax(c) + SignalMin(c)) \div 2,
                 diff |-> IF diff # 0 THEN diff
                          ELSE IF k = p.num_channels THEN 1
                          ELSE DEFAULT_DIFF]]]

(* ------------- specification of the channel selection ------------------ *)

\* A plot has been constructed with one of the lists; no thread of the
\* model plays a part.
InitChannels ==
    /\ \E given \in Selections :
          LET r == init_channel_selection(given)
          IN  /\ r.err = "none"
              /\ plot = new_channel_plot(r.selection)
    /\ worker = NoWorker
    /\ window_buffer = <<>>
    /\ measuring = FALSE
    /\ obs = NoObs
    /\ consumer_list = <<>>
    /\ queues = [q \in Queues |-> SamplingThread_q_sample_sets]
    /\ nPublished = 0
    /\ delivered = [q \in Queues |-> <<>>]
    /\ offered = [q \in Queues |-> <<>>]
    /\ wasFull = [q \in Queues |-> FALSE]
    /\ solo = [q \in Queues |-> [id |-> "-", items |-> <<>>]]
    /\ last = NoOp

ChannelFrame ==
    UNCHANGED <<worker, window_buffer, measuring, obs, consumer_list,
                queues, nPublished, delivered, offered, wasFull, solo>>

\* The user clicks the checkbox of channel i: its state flips and the
\* clicked signal calls _update_channel_display.
ClickCheckbox(i) ==
    LET r == update_channel_display(
                 [plot EXCEPT !.checkboxes[i] = ~plot.checkboxes[i]])
    IN  /\ r.err = "none"
        /\ plot' = r.plot
        /\ last' = [NoOp EXCEPT !.op = "channel_display"]
        /\ ChannelFrame

\* The user clicks the show-all button of type t.
ShowAll(t) ==
    LET r == show_all(plot, t)
    IN  /\ r.err = "none"
        /\ plot' = r.plot
        /\ last' = [NoOp EXCEPT !.op = "channel_display"]
        /\ ChannelFrame

\* The user clicks the hide-all button of type t.
HideAll(t) ==
    LET r == hide_all(plot, t)
    IN  /\ r.err = "none"
        /\ plot' = r.plot
        /\ last' = [NoOp EXCEPT !.op = "channel_display"]
        /\ ChannelFrame

\* The user clicks the autoscale button.
UpdateScale ==
    /\ plot' = update_scale(plot)
    /\ last' = [NoOp EXCEPT !.op = "scale"]
    /\ ChannelFrame

NextChannels ==
    \/ \E i \in DOMAIN ChannelTypeOf : ClickCheckbox(i)
    \/ \E t \in {"UNI", "BIP"} : ShowAll(t)
    \/ \E t \in {"UNI", "BIP"} : HideAll(t)
    \/ UpdateScale

SpecChannels == InitChannels /\ [][NextChannels]_vars

(* ------------------------------- C35 ----------------------------------- *)

\* C35 as stated: the counter channel is never in the channel selection
\* and the STATUS channel is always its last entry.
C35_StatusLastCounterNever ==
    /\ ~In(COUNTER, plot.channel_selection)
    /\ plot.channel_selection[Len(plot.channel_selection)] = STATUS

(* ------------------------------- C39 ----------------------------------- *)

\* The scaling of channel c in p, a displayed channel.
ScalingOf(p, c) == p.plot_diff[first_index(p.channel_selection, c) + 1]

\* C39 as stated: a step of _update_channel_display leaves the scaling of
\* every channel displayed before and after as it was and gives every
\* newly displayed channel the default scaling.
C39_ScalingFollowsChannel ==
    [][last'.op = "channel_display" =>
        \A c \in 0..(NumDeviceChannels - 1) :
            In(c, plot'.channel_selection) =>
                ScalingOf(plot', c) =
                    IF In(c, plot.channel_selection)
                    THEN ScalingOf(plot, c)
                    ELSE default_plot_diff]_vars

(***************************************************************************)
(* The impedance monitor: ImpedancePlot colours one indicator per          *)
(* impedance channel from the values its SamplingThread emits.             *)
(***************************************************************************)

(* ------------------------ colours and legend --------------------------- *)

\* Impedance channels of the device (len(self.device.imp_channels)),
\* numbered from 1 here.
NumImpChannels == 2

ImpChannels == 1..NumImpChannels

\* The impedance values handed to update_plot: values of several ranges
\* of the lookup table, the values next to 500 and the three status codes.
ImpedanceValues == {0, 5, 30, 100, 499, 500, 501, 5000, 5100, 5200}

\* ImpedancePlot._lookup_table (impedance_plotter.py:230-256): the colour
\* of a value as <<red, green, blue>>; when no branch of the chain is
\* taken, color_code is not bound and the return raises
\* UnboundLocalError.
lookup_table(value) ==
    IF value < 5 THEN [color |-> <<0, 255, 0>>, err |-> "none"]
    ELSE IF value >= 5 /\ value < 10
    THEN [color |-> <<0, 204, 0>>, err |-> "none"]
    ELSE IF value >= 10 /\ value < 30
    THEN [color |-> <<0, 153, 0>>, err |-> "none"]
    ELSE IF value >= 30 /\ value < 50
    THEN [color |-> <<0, 102, 0>>, err |-> "none"]
    ELSE IF value >= 50 /\ value < 100
    THEN [color |-> <<255, 255, 0>>, err |-> "none"]
    ELSE IF value >= 100 /\ value < 200
    THEN [color |-> <<204, 128, 0>>, err |-> "none"]
    ELSE IF value >= 200 /\ value < 400
    THEN [color |-> <<255, 0, 0>>, err |-> "none"]
    ELSE IF value >= 400 /\ value < 500
    THEN [color |-> <<153, 0, 0>>, err |-> "none"]
    ELSE IF value = 500 THEN [color |-> <<102, 66, 33>>, err |-> "none"]
    ELSE IF value = 5000 THEN [color |-> <<128, 128, 128>>, err |-> "none"]
    ELSE IF value = 5100 THEN [color |-> <<204, 0, 102>>, err |-> "none"]
    ELSE IF value = 5200 THEN [color |-> <<0, 0, 179>>, err |-> "none"]
    ELSE [color |-> <<>>, err |-> "UnboundLocalError"]

\* ImpedancePlot._generate_legend (impedance_plotter.py:258-286): the
\* twelve entries, each a name and a colour.
generate_legend ==
    <<[name |-> "0 - 5 kOhm",    brush |-> <<0, 255, 0>>],
      [name |-> "5 - 10 kOhm",   brush |-> <<0, 204, 0>>],
      [name |-> "10 - 30 kOhm",  brush |-> <<0, 153, 0>>],
      [name |-> "30 - 50 kOhm",  brush |-> <<0, 102, 0>>],
      [name |-> "50 - 100 kOhm", brush |-> <<255, 255, 0>>],
      [name |-> "100 - 200 kOhm", brush |-> <<204, 128, 0>>],
      [name |-> "200 - 400 kOhm", brush |-> <<255, 0, 0>>],
      [name |-> "400 - 500 kOhm", brush |-> <<153, 0, 0>>],
      [name |-> ">= 500 kOhm / Not connected", brush |-> <<102, 66, 33>>],
      [name |-> "Disabled",          brush |-> <<128, 128, 128>>],
      [name |-> "Odd/Even error",    brush |-> <<204, 0, 102>>],
      [name |-> "PGND disconnected", brush |-> <<0, 0, 179>>]>>

\* ImpedancePlot after initUI (impedance_plotter.py:125-126, 206-216):
\* every indicator has the colour of 'Disabled' and every list entry shows
\* the value 5000.  spots are the brushes of self.spots, shown those the
\* scatter plot was last given with setData, value the numbers of the
\* text items, data the list update_plot was last called with.
new_impedance_plot ==
    [state |-> "open",
     spots |-> [i \in ImpChannels |-> <<128, 128, 128>>],
     shown |-> [i \in ImpChannels |-> <<128, 128, 128>>],
     value |-> [i \in ImpChannels |-> 5000],
     data  |-> [i \in ImpChannels |-> 5000],
     err   |-> "none"]

\* The loop of update_plot from indicator i on (impedance_plotter.py:
\* 222-225): brush and text of the indicators in turn; an exception of
\* the lookup leaves the loop.
RECURSIVE update_spots(_, _, _)
update_spots(p, data, i) ==
    IF i > NumImpChannels THEN p
    ELSE LET c == lookup_table(data[i])
         IN  IF c.err # "none" THEN [p EXCEPT !.err = c.err]
             ELSE update_spots([p EXCEPT !.spots[i] = c.color,
                                         !.value[i] = data[i]],
                               data, i + 1)

\* ImpedancePlot.update_plot (impedance_plotter.py:219-226): after the
\* loop the scatter plot is given the spots.
update_plot(p, data) ==
    LET q == update_spots([p EXCEPT !.data = data, !.err = "none"], data, 1)
    IN  IF q.err # "none" THEN q ELSE [q EXCEPT !.shown = q.spots]

(* ----------- specification of the impedance indicators ----------------- *)

\* An impedance plot has been constructed; the worker's part is left out.
InitLookup ==
    /\ plot = new_impedance_plot
    /\ worker = NoWorker
    /\ window_buffer = <<>>
    /\ measuring = FALSE
    /\ obs = NoObs
    /\ consumer_list = <<>>
    /\ queues = [q \in Queues |-> SamplingThread_q_sample_sets]
    /\ nPublished = 0
    /\ delivered = [q \in Queues |-> <<>>]
    /\ offered = [q \in Queues |-> <<>>]
    /\ wasFull = [q \in Queues |-> FALSE]
    /\ solo = [q \in Queues |-> [id |-> "-", items |-> <<>>]]
    /\ last = NoOp

\* The slot update_plot runs for an emitted list of values.
UpdatePlot(data) ==
    /\ plot' = update_plot(plot, data)
    /\ last' = [NoOp EXCEPT !.op = "update_plot"]
    /\ UNCHANGED <<worker, window_buffer, measuring, obs, consumer_list,
                   queues, nPublished, delivered, offered, wasFull, solo>>

NextLookup == \E data \in [ImpChannels -> ImpedanceValues] : UpdatePlot(data)

SpecLookup == InitLookup /\ [][NextLookup]_vars

(* ------------------------------- C36 ----------------------------------- *)

\* The values the legend entry k stands for: the ranges run from the
\* lower limit up to, not including, the upper one; the status codes 5000,
\* 5100 and 5200 have their own entries and every other value from 500 on
\* is 'not connected'.
LegendHolds(k, v) ==
    CASE k = 1  -> 0 <= v /\ v < 5
      [] k = 2  -> 5 <= v /\ v < 10
      [] k = 3  -> 10 <= v /\ v < 30
      [] k = 4  -> 30 <= v /\ v < 50
      [] k = 5  -> 50 <= v /\ v < 100
      [] k = 6  -> 100 <= v /\ v < 200
      [] k = 7  -> 200 <= v /\ v < 400
      [] k = 8  -> 400 <= v /\ v < 500
      [] k = 9  -> 500 <= v /\ v \notin {5000, 5100, 5200}
      [] k = 10 -> v = 5000
      [] k = 11 -> v = 5100
      [] k = 12 -> v = 5200

\* C36 as stated: update_plot never fails, every value handed to it is of
\* exactly one legend entry, and every indicator is shown in the colour of
\* the legend entry of its value.
C36_LookupAgreesWithLegend ==
    /\ plot.err = "none"
    /\ \A i \in ImpChannels :
          /\ Cardinality({k \in DOMAIN generate_legend :
                             LegendHolds(k, plot.data[i])}) = 1
          /\ \A k \in DOMAIN generate_legend :
                LegendHolds(k, plot.data[i])
                    => plot.shown[i] = generate_legend[k].brush

(* ------------- the impedance monitor's SamplingThread ------------------ *)

\* Number of blocks the device publishes to the impedance monitor, and the
\* largest number of sample sets in a block.
MaxImpBlocks == 3

MaxSets == 2

\* Sample values are floating-point numbers; the model writes them in
\* tenths.  The sample of channel c in sample set s of the b-th block: a
\* value of its own for every sample, with a fractional part.
ImpedanceSample(b, s, c) == 10 * (100 * b + 10 * s + c) + 7

\* A block of n sample sets, the b-th the device publishes.
ImpedanceBlock(b, n) ==
    [num_sample_sets |-> n,
     num_samples_per_sample_set |-> NumImpChannels,
     samples |-> [j \in 1..(n * NumImpChannels) |->
                     ImpedanceSample(b, (j - 1) \div NumImpChannels,
                                     (j - 1) % NumImpChannels)]]

\* int(x) for a value in tenths that is not negative.
int(x) == x \div 10

\* sd.samples[i*n:(i+1)*n] for a flat list counted from 0.
slice(samples, from, to) == SubSeq(samples, from + 1, to)

\* The for loop of update_samples (impedance_plotter.py:349-350) from
\* sample set i on: sample_set is bound to the sample sets of the block in
\* turn; with no sample set it stays what it was.
RECURSIVE last_sample_set(_, _, _)
last_sample_set(sd, i, sample_set) ==
    IF i >= sd.num_sample_sets THEN sample_set
    ELSE last_sample_set(sd, i + 1,
             [bound |-> TRUE,
              samples |-> slice(sd.samples,
                                i * sd.num_samples_per_sample_set,
                                (i + 1) * sd.num_samples_per_sample_set)])

\* impedance_values = [int(x) for x in sample_set.samples]
impedance_values(sample_set) ==
    [k \in DOMAIN sample_set.samples |-> int(sample_set.samples[k])]

\* SamplingThread of the impedance monitor after __init__
\* (impedance_plotter.py:323-337); sample_set is the local of
\* update_samples, not bound before the first sample set.
new_impedance_worker ==
    [pc |-> "idle", sampling |-> TRUE, sd |-> <<>>,
     sample_set |-> [bound |-> FALSE, samples |-> <<>>]]

\* What has been observed of the impedance worker: the blocks it has
\* dequeued and the lists it has emitted, both in order.
NoImpedanceObs == [taken |-> <<>>, emitted |-> <<>>]

(* ------------- specification of the impedance monitor ------------------ *)

\* The impedance plot has been constructed: the queue is registered, the
\* device measures impedances, the thread is started.
InitImpedance ==
    /\ plot = new_impedance_plot
    /\ worker = new_impedance_worker
    /\ window_buffer = <<>>
    /\ measuring = TRUE
    /\ obs = NoImpedanceObs
    /\ consumer_list = registerConsumer(<<>>, PlotDevice, PlotQueue).list
    /\ queues = [q \in Queues |->
                   IF q = PlotQueue THEN plot_q_sample_sets
                                    ELSE SamplingThread_q_sample_sets]
    /\ nPublished = 0
    /\ delivered = [q \in Queues |-> <<>>]
    /\ offered = [q \in Queues |-> <<>>]
    /\ wasFull = [q \in Queues |-> FALSE]
    /\ solo = [q \in Queues |-> [id |-> "-", items |-> <<>>]]
    /\ last = NoOp

\* The device publishes a block of n sample sets.
ImpedancePublish(n) ==
    LET sd == ImpedanceBlock(nPublished + 1, n)
        r  == putSampleData(consumer_list, queues, PlotDevice, sd)
    IN  /\ measuring
        /\ nPublished < MaxImpBlocks
        /\ ~r.blocked
        /\ queues' = r.queues
        /\ nPublished' = nPublished + 1
        /\ UNCHANGED <<consumer_list, delivered, offered, wasFull, solo,
                       last>>
        /\ UNCHANGED plotVars

\* The thread's started signal calls update_samples.
ImpedanceStart ==
    /\ worker.pc = "idle"
    /\ worker' = [worker EXCEPT !.pc = "outer"]
    /\ UNCHANGED <<queues, window_buffer, obs>>
    /\ WorkerFrame

\* while self.sampling:
ImpedanceTestSampling ==
    /\ worker.pc = "outer"
    /\ worker' = [worker EXCEPT
                    !.pc = IF worker.sampling THEN "inner" ELSE "done"]
    /\ UNCHANGED <<queues, window_buffer, obs>>
    /\ WorkerFrame

\* while not self.q_sample_sets.empty():
ImpedanceTestEmpty ==
    /\ worker.pc = "inner"
    /\ worker' = [worker EXCEPT
                    !.pc = IF Queue_empty(queues[PlotQueue])
                           THEN "sleep" ELSE "get"]
    /\ UNCHANGED <<queues, window_buffer, obs>>
    /\ WorkerFrame

\* sd = self.q_sample_sets.get()
ImpedanceGet ==
    /\ worker.pc = "get"
    /\ LET r == Queue_get(queues[PlotQueue])
       IN  /\ queues' = [queues EXCEPT ![PlotQueue] = r.q]
           /\ worker' = [worker EXCEPT !.pc = "emit", !.sd = r.item]
           /\ obs' = [obs EXCEPT !.taken = Append(@, r.item)]
    /\ UNCHANGED window_buffer
    /\ WorkerFrame

\* The for loop over the sample sets, the conversion of sample_set.samples
\* and self.output.emit (impedance_plotter.py:349-356); reading sample_set
\* while it is not bound raises UnboundLocalError, which ends
\* update_samples.
ImpedanceEmit ==
    /\ worker.pc = "emit"
    /\ LET sample_set == last_sample_set(worker.sd, 0, worker.sample_set)
       IN  IF ~sample_set.bound
           THEN /\ worker' = [worker EXCEPT !.pc = "crashed"]
                /\ obs' = obs
           ELSE /\ worker' = [worker EXCEPT !.pc = "inner", !.sd = <<>>,
                                            !.sample_set = sample_set]
                /\ obs' = [obs EXCEPT
                     !.emitted = Append(@, impedance_values(sample_set))]
    /\ UNCHANGED <<queues, window_buffer>>
    /\ WorkerFrame

\* time.sleep(1)
ImpedanceSleep ==
    /\ worker.pc = "sleep"
    /\ worker' = [worker EXCEPT !.pc = "outer"]
    /\ UNCHANGED <<queues, window_buffer, obs>>
    /\ WorkerFrame

NextImpedance ==
    \/ \E n \in 0..MaxSets : ImpedancePublish(n)
    \/ ImpedanceStart
    \/ ImpedanceTestSampling
    \/ ImpedanceTestEmpty
    \/ ImpedanceGet
    \/ ImpedanceEmit
    \/ ImpedanceSleep

SpecImpedance == InitImpedance /\ [][NextImpedance]_vars

(* ------------------------------- C37 ----------------------------------- *)

\* The list the claim expects for a dequeued block: the integer values of
\* its last sample set, and nothing for a block without sample sets.
OwnUpdate(sd) ==
    impedance_values(
        last_sample_set(sd, 0, [bound |-> FALSE, samples |-> <<>>]))

\* C37 as stated: update_samples never ends with an exception; every
\* dequeued block has its update once the worker is through with it; and
\* the k-th update carries the last sample set of the k-th dequeued block.
C37_OneUpdatePerBlock ==
    /\ worker.pc # "crashed"
    /\ Len(obs.emitted)
          = Len(obs.taken) - (IF worker.pc = "emit" THEN 1 ELSE 0)
    /\ \A k \in DOMAIN obs.emitted :
          obs.emitted[k] = OwnUpdate(obs.taken[k])

====
